---- MODULE Spec2Model ----
(***************************************************************************)
(* Event-driven narrative pipeline of convex/worldStory.ts (one world):    *)
(* conversation stacks, trigger evaluator, passage generator, finalizer,   *)
(* cron-driven generation, vacuuming and story reset.  Every ctx.runQuery, *)
(* ctx.runMutation and db transaction of an action is one atomic step; the *)
(* steps of concurrently running actions interleave freely.                *)
(***************************************************************************)
EXTENDS Integers, Sequences, FiniteSets, TLC

(* ---------------- program constants ---------------- *)
MAX_PASSAGES == 12
STORY_GENERATION_COOLDOWN == 30000
MIN_MESSAGES_FOR_STORY == 3
MIN_MESSAGES_IN_CONVERSATION == 2
PLOT_SUMMARY_DIALOGUES == 10 \* newDialogueCount >= 10 && newDialogueCount % 10 === 0
SUMMARY_STORY_LIMIT == 15    \* getPlotSummaryData: .take(15)
VACUUM_MAX_AGE == 86400000

(* ---------------- bounds of the model ---------------- *)
MaxMessages == 1        \* utterances written in a run of Spec
MaxJobs == 2            \* generateNarrative actions in flight in Spec
MaxTicks == 1           \* clock advances in a run
MaxResets == 1          \* resetWorldStory calls in a run
MaxStackLen == 2        \* entries of one conversation stack in Spec
MaxFinalizers == 2      \* generateFinalSummary actions in flight
ScenarioMessages == 4   \* utterances written in a run of ScenarioSpec
ScenarioStackLen == 8   \* entries of one conversation stack in ScenarioSpec
MaxGateEntries == 3     \* stack entries of a GateSpec input
MaxExtractors == 2      \* extractAndSaveThemeMutation actions in flight
MaxDrafters == 1        \* alterStoryDraft actions in flight
MaxDraftGenerators == 1 \* generateStoryDraft actions in flight
MaxFailures == 1        \* failed Generation Service calls of passage firings
RetryMessages == 2      \* utterances written in a run of RetrySpec
RetryStackLen == 3      \* entries of one conversation stack in RetrySpec
MaxSummarizers == 2     \* plot-summary actions in flight
MaxDialogueCount == 9   \* largest totalDialogueCount of a SummarySpec input
SummaryMessages == 2    \* utterances written in a run of SummarySpec
TerminationMessages == 2 \* utterances written in a run of TerminationSpec
LossMessages == 3       \* utterances written in a run of LossSpec
MaxOutputLen == 2       \* tokens of a Generation Service response in CompactSpec

(* ---------------- finite input domains ---------------- *)
PlayerOrder == <<"ai1", "human1">>
Players == {PlayerOrder[i] : i \in 1..Len(PlayerOrder)}
HumanPlayerIds == {"human1"}
AiPlayers == Players \ HumanPlayerIds
Conversations == {"c1", "c2", "c3"}
Themes == {"themeA"}
\* themes a caller may pass to setInitialPlot or createWorldPlot in PlotSpec
PlotThemes == {"themeA", "themeB"}
\* what a call returns instead of a row id: null
NoPlotId == 0
FinalSummaries == {"summary1"}
\* cleaned responses of the final-summary call ("": nothing is left after the
\* prefixes are stripped)
FinalOutputs == {"summary1", "summary2", ""}
\* a response of the summary call that is the summary proper and nothing else
PlainOutputs == {<<"word">>}
\* what a response of the Generation Service is made of: known prefixes (one
\* of them also in capitals), a word of the summary proper, blank, line break
OutputTokens ==
  {"Summary:", "SUMMARY:", "Here is the summary:", "Comprehensive summary:",
   "word", " ", "\n"}
\* every response of at most MaxOutputLen tokens
ServiceOutputs == UNION {[1..n -> OutputTokens] : n \in 0..MaxOutputLen}
JobIds == 1..MaxJobs
FinalizerIds == 1..MaxFinalizers
ExtractorIds == 1..MaxExtractors
DrafterIds == 1..MaxDrafters
DraftGeneratorIds == 1..MaxDraftGenerators
SummarizerIds == 1..MaxSummarizers
\* mutation.newTheme of a parsed extractor response ("": the field is missing)
MutationThemes == {"themeB", ""}
\* contents of an extractor response: prose without braces, a brace-enclosed
\* fragment that JSON.parse rejects, or a JSON object with its newTheme
ExtractorContents ==
  {[fragment |-> "none", newTheme |-> ""],
   [fragment |-> "malformed", newTheme |-> ""]}
  \cup {[fragment |-> "object", newTheme |-> t] : t \in MutationThemes}
InitPassageCounts == {0, MAX_PASSAGES - 1}
\* wall-clock value of the first modelled instant: more than VACUUM_MAX_AGE
\* after the passages that exist at that instant were written (at time 0)
Epoch == VACUUM_MAX_AGE + STORY_GENERATION_COOLDOWN
Undefined == "<undefined>"
\* the null an action returns
Null == "<null>"

VARIABLES
  now,          \* Date.now()
  ticks,        \* number of clock advances so far
  resets,       \* number of resetWorldStory calls so far
  nextMessageId,\* next fresh id of the messages table
  messages,     \* table messages: sequence of rows in insertion order
  pushState,    \* per message id: progress of its pushToConversationStack action
  worldPlot,    \* table worldPlot: sequence of rows of the world
  worldStory,   \* table worldStory: sequence of passage rows, oldest first
  jobs,         \* generateNarrative actions, by job slot
  finalizers,   \* generateFinalSummary actions, by job slot
  triggerCheck, \* GateSpec: the value returned by shouldTriggerStoryGeneration
  themeMutations, \* table themeMutations: sequence of rows in insertion order
  extractors,   \* extractAndSaveThemeMutation actions, by job slot
  storyDrafts,  \* table storyDrafts: sequence of rows of the world
  drafters,     \* alterStoryDraft actions, by job slot
  draftGenerators, \* generateStoryDraft actions, by job slot
  failures,     \* the batches of the passage firings whose Generation Service call failed
  summarizers,  \* generatePlotSummary and generatePlotSummaryWithUnprocessed
                \* actions, by job slot
  plotCall      \* the latest call of createWorldPlot or initializeWorldPlot: its
                \* arguments and the value it returned

\* the state of the enrichment jobs (theme extractor, story draft)
enrichVars == <<themeMutations, extractors, storyDrafts, drafters, draftGenerators>>

vars == <<now, ticks, resets, nextMessageId, messages, pushState, worldPlot,
          worldStory, jobs, finalizers, triggerCheck, themeMutations,
          extractors, storyDrafts, drafters, draftGenerators, failures,
          plotCall, summarizers>>

(* ---------------- helpers ---------------- *)
Max(S) == CHOOSE x \in S : \A y \in S : y <= x

RECURSIVE SeqFilterUnprocessed(_, _)
\* the entries of one stack whose messageId is not in processedIds, in order
SeqFilterUnprocessed(stack, processedIds) ==
  IF stack = <<>> THEN <<>>
  ELSE LET rest == SeqFilterUnprocessed(Tail(stack), processedIds)
       IN IF Head(stack).messageId \notin processedIds
          THEN <<Head(stack)>> \o rest ELSE rest

Range(s) == {s[i] : i \in 1..Len(s)}

HasPlot == Len(worldPlot) > 0
\* .query('worldPlot').withIndex('worldId').first()
Plot == worldPlot[1]

EmptyStacks == [p \in Players |-> <<>>]

\* one stack's entries, each tagged with the key (playerId) of the stack
Tagged(stack, p) ==
  [i \in 1..Len(stack) |->
     [messageId |-> stack[i].messageId, conversationId |-> stack[i].conversationId,
      timestamp |-> stack[i].timestamp, playerId |-> p]]

RECURSIVE CollectUnprocessed(_, _)
\* for (const [playerId, messages] of Object.entries(stacks)) ... push(msg):
\* the unprocessed entries of all stacks as one list, stacks i..end
CollectUnprocessed(plot, i) ==
  IF i > Len(PlayerOrder) THEN <<>>
  ELSE Tagged(SeqFilterUnprocessed(plot.conversationStacks[PlayerOrder[i]],
                                   plot.processedMessageIds), PlayerOrder[i])
       \o CollectUnprocessed(plot, i + 1)

(* ---------------- pure functions of the source ---------------- *)
\* variant with the phase boundaries one ordinal early
getPassagePhaseEarly(passageNumber) ==
  IF passageNumber < 3 THEN "beginning"
  ELSE IF passageNumber < 6 THEN "rising"
  ELSE IF passageNumber < 9 THEN "climax"
  ELSE "conclusion"

\* variant whose last stage begins one passage late
determineStoryProgressLate(entryCount) ==
  IF entryCount <= 3 THEN "beginning"
  ELSE IF entryCount <= 6 THEN "rising"
  ELSE IF entryCount <= 10 THEN "climax"
  ELSE "conclusion"

determineStoryProgress(entryCount) ==
  IF entryCount <= 3 THEN "beginning"
  ELSE IF entryCount <= 6 THEN "rising"
  ELSE IF entryCount <= 9 THEN "climax"
  ELSE IF entryCount <= 12 THEN "conclusion"
  ELSE "conclusion"

getPassagePhase(passageNumber) ==
  IF passageNumber <= 3 THEN "beginning"
  ELSE IF passageNumber <= 6 THEN "rising"
  ELSE IF passageNumber <= 9 THEN "climax"
  ELSE "conclusion"

\* variant that looks at the caller's flag only
IsHumanPriorityFlagOnly(prioritizeHuman, hasHumanMessages) == prioritizeHuman

\* const isHumanPriority = args.prioritizeHuman || hasHumanMessages
IsHumanPriority(prioritizeHuman, hasHumanMessages) ==
  prioritizeHuman \/ hasHumanMessages

\* variant whose cooldown still holds at exactly STORY_GENERATION_COOLDOWN
CooldownActiveInclusive(lastGeneration) ==
  now - lastGeneration <= STORY_GENERATION_COOLDOWN

\* if (now - lastGeneration < STORY_GENERATION_COOLDOWN)
CooldownActive(lastGeneration) ==
  now - lastGeneration < STORY_GENERATION_COOLDOWN

\* shouldTriggerStoryGeneration: the query's handler on the current database
shouldTriggerStoryGeneration(prioritizeHuman) ==
  IF ~HasPlot THEN [shouldTrigger |-> FALSE, reason |-> "No plot found"]
  ELSE
  LET plot == Plot
      allUnprocessedMessages == CollectUnprocessed(plot, 1)
      humanMessages ==
        SelectSeq(allUnprocessedMessages, LAMBDA m : m.playerId \in HumanPlayerIds)
      hasHumanMessages == Len(humanMessages) > 0
      isHumanPriority == IsHumanPriority(prioritizeHuman, hasHumanMessages)
      lastGeneration == plot.lastStoryGenerationTime
      minMessages == IF isHumanPriority THEN 1 ELSE MIN_MESSAGES_FOR_STORY
      minMessagesPerConversation ==
        IF isHumanPriority THEN 1 ELSE MIN_MESSAGES_IN_CONVERSATION
      messageCount == IF isHumanPriority /\ hasHumanMessages
                      THEN Len(humanMessages) ELSE Len(allUnprocessedMessages)
      messagesToCheck == IF isHumanPriority /\ hasHumanMessages
                         THEN humanMessages ELSE allUnprocessedMessages
      conversationGroups ==
        [c \in {messagesToCheck[i].conversationId : i \in 1..Len(messagesToCheck)}
           |-> SelectSeq(messagesToCheck, LAMBDA m : m.conversationId = c)]
      meaningfulConversations ==
        {c \in DOMAIN conversationGroups :
           Len(conversationGroups[c]) >= minMessagesPerConversation}
  IN IF ~isHumanPriority /\ CooldownActive(lastGeneration)
     THEN [shouldTrigger |-> FALSE, reason |-> "Cooldown active"]
     ELSE IF messageCount < minMessages
     THEN [shouldTrigger |-> FALSE, reason |-> "Not enough new messages"]
     ELSE IF Cardinality(meaningfulConversations) = 0
     THEN [shouldTrigger |-> FALSE, reason |-> "No meaningful conversations"]
     ELSE [shouldTrigger |-> TRUE, reason |-> "trigger"]

(* ---------------- summary texts ---------------- *)
\* A text is a sequence of tokens: a known prefix written in some case, a
\* word of the summary proper, a blank or a line break.
\* the prefixes generatePlotSummary and generateFinalSummary remove, in the
\* order of the source
SummaryPrefixes ==
  << <<"Here is a simple summary of the story:">>,
     <<"Here is the summary:">>,
     <<"Summary:">>,
     <<"Here's the summary:">>,
     <<"Simple summary:">> >>

\* generatePlotSummaryWithUnprocessed has one more
ExpandedSummaryPrefixes == SummaryPrefixes \o << <<"Comprehensive summary:">> >>

\* String.prototype.toLowerCase on one token
toLowerCaseToken(t) ==
  CASE t = "Here is a simple summary of the story:"
         -> "here is a simple summary of the story:"
    [] t = "Here is the summary:" -> "here is the summary:"
    [] t \in {"Summary:", "SUMMARY:"} -> "summary:"
    [] t = "Here's the summary:" -> "here's the summary:"
    [] t = "Simple summary:" -> "simple summary:"
    [] t = "Comprehensive summary:" -> "comprehensive summary:"
    [] OTHER -> t

toLowerCase(text) == [i \in 1..Len(text) |-> toLowerCaseToken(text[i])]

startsWith(text, prefix) ==
  /\ Len(text) >= Len(prefix)
  /\ SubSeq(text, 1, Len(prefix)) = prefix

substring(text, start) == SubSeq(text, start + 1, Len(text))

IsWhitespace(t) == t \in {" ", "\n"}

RECURSIVE trimStart(_)
trimStart(text) ==
  IF text # <<>> /\ IsWhitespace(Head(text)) THEN trimStart(Tail(text)) ELSE text

RECURSIVE trimEnd(_)
trimEnd(text) ==
  IF text # <<>> /\ IsWhitespace(text[Len(text)])
  THEN trimEnd(SubSeq(text, 1, Len(text) - 1))
  ELSE text

trim(text) == trimEnd(trimStart(text))

\* the loop over the prefixes: one pass, each prefix tested once against the
\* text as the earlier prefixes left it
RECURSIVE stripPrefixes(_, _)
stripPrefixes(cleanSummary, prefixes) ==
  IF prefixes = <<>> THEN cleanSummary
  ELSE stripPrefixes(
         IF startsWith(toLowerCase(cleanSummary), toLowerCase(Head(prefixes)))
         THEN trim(substring(cleanSummary, Len(Head(prefixes))))
         ELSE cleanSummary,
         Tail(prefixes))

\* split('\n')
RECURSIVE split(_)
split(text) ==
  IF \A i \in 1..Len(text) : text[i] # "\n" THEN <<text>>
  ELSE LET at == CHOOSE i \in 1..Len(text) :
                   /\ text[i] = "\n"
                   /\ \A k \in 1..(i - 1) : text[k] # "\n"
       IN <<SubSeq(text, 1, at - 1)>> \o split(SubSeq(text, at + 1, Len(text)))

\* split('\n').filter(l => l.trim().length > 0)
NonEmptyLines(text) == SelectSeq(split(text), LAMBDA l : Len(trim(l)) > 0)

slice(lines, end) == SubSeq(lines, 1, IF Len(lines) < end THEN Len(lines) ELSE end)

RECURSIVE join(_, _)
join(lines, separator) ==
  IF lines = <<>> THEN <<>>
  ELSE IF Len(lines) = 1 THEN lines[1]
  ELSE lines[1] \o separator \o join(Tail(lines), separator)

\* generatePlotSummary: the first non-empty line of the stripped text
cleanPlotSummary(content) ==
  LET cleanSummary == stripPrefixes(trim(content), SummaryPrefixes)
      lines == NonEmptyLines(cleanSummary)
  IN IF Len(lines) > 0 THEN trim(lines[1]) ELSE trim(cleanSummary)

\* generatePlotSummaryWithUnprocessed: the first three lines, joined by blanks
cleanExpandedSummary(content) ==
  LET cleanSummary == stripPrefixes(trim(content), ExpandedSummaryPrefixes)
  IN trim(join(slice(NonEmptyLines(cleanSummary), 3), <<" ">>))

\* generateFinalSummary: the first two lines
cleanFinalSummary(content) ==
  LET cleanSummary == stripPrefixes(trim(content), SummaryPrefixes)
  IN trim(join(slice(NonEmptyLines(cleanSummary), 2), <<"\n">>))

(* ---------------- rows and job records ---------------- *)
\* the row createWorldPlot inserts
NewPlot(theme) ==
  [_id |-> resets + 1,                \* a fresh id for every row
   initialPlot |-> theme,
   currentSummary |-> <<theme>>,       \* the theme, one word of text
   lastProcessedMessageTime |-> 0,
   processedMessageIds |-> {},
   lastStoryGenerationTime |-> 0,     \* undefined, read as (x || 0)
   conversationStacks |-> EmptyStacks, \* undefined, read as (x || {})
   isComplete |-> FALSE,               \* undefined
   finalSummary |-> Undefined,
   evolvedTheme |-> Undefined,
   storyProgress |-> "beginning",
   totalDialogueCount |-> 0]

\* a passage written before the first modelled instant, from a message that
\* has since been vacuumed from the messages table
HistoricPassage(i) ==
  [sourceMessages |-> {0 - i}, characterNames |-> {"ai1"}, timestamp |-> 0,
   passageNumber |-> i, phase |-> getPassagePhase(i), isFinalPassage |-> FALSE]

NoCall == [fn |-> "", initialPlot |-> "", returned |-> NoPlotId]

\* a generateFinalSummary job slot: what its plot read found stored, and what
\* the action returned
IdleFinalizer == [pc |-> "idle", stored |-> Undefined, returned |-> Undefined]

IdleJob ==
  [pc |-> "idle", gate |-> FALSE, sinceTime |-> 0,
   toPush |-> <<>>, batch |-> {}, passageCount |-> 0]

\* the three conditions of the AI-only gate on the current database
AiOnlyGate ==
  /\ HasPlot
  /\ now - Plot.lastStoryGenerationTime >= STORY_GENERATION_COOLDOWN
  /\ LET u == CollectUnprocessed(Plot, 1)
     IN /\ Len(u) >= MIN_MESSAGES_FOR_STORY
        /\ \E c \in {u[i].conversationId : i \in 1..Len(u)} :
             Cardinality({i \in 1..Len(u) : u[i].conversationId = c})
               >= MIN_MESSAGES_IN_CONVERSATION

HasIdleJob(slots) == \E j \in slots : jobs[j].pc = "idle"
\* ctx.scheduler.runAfter(delay, internal.worldStory.generateNarrative, ...):
\* the job may start at any later moment; it remembers whether the AI-only
\* gate held when it was fired
ScheduleGenerateNarrative(slots) ==
  LET j == CHOOSE i \in slots :
             jobs[i].pc = "idle" /\ \A k \in slots : jobs[k].pc = "idle" => i <= k
  IN [jobs EXCEPT ![j] = [IdleJob EXCEPT !.pc = "scheduled", !.gate = AiOnlyGate]]

\* variant that puts the new entry at the head of the author's stack
PushedStacksAtHead(plot, playerId, messageId, conversationId, timestamp) ==
  [plot.conversationStacks EXCEPT
     ![playerId] = <<[messageId |-> messageId,
                      conversationId |-> conversationId,
                      timestamp |-> timestamp]>> \o @]

\* pushToConversationStackMutation's patch of the plot row
PushedStacks(plot, playerId, messageId, conversationId, timestamp) ==
  [plot.conversationStacks EXCEPT
     ![playerId] = Append(@, [messageId |-> messageId,
                              conversationId |-> conversationId,
                              timestamp |-> timestamp])]

IdleExtractor ==
  [pc |-> "idle", newTheme |-> "", mutationIndex |-> 0, previousTheme |-> "",
   plotFound |-> FALSE]
IdleDrafter == [pc |-> "idle", originalTheme |-> "", currentVersion |-> 0]
IdleDraftGenerator == [pc |-> "idle", theme |-> ""]
\* a generatePlotSummary or generatePlotSummaryWithUnprocessed job slot
IdleSummarizer == [pc |-> "idle", kind |-> "", storyCount |-> 0]

\* ctx.scheduler.runAfter of an enrichment job: n runs of the job are put
\* into the lowest idle slots; a specification that does not follow the
\* enrichment jobs passes no slots
IdleSlots(f, slots) == {i \in slots : f[i].pc = "idle"}
CanSchedule(f, slots, n) == slots = {} \/ Cardinality(IdleSlots(f, slots)) >= n
RECURSIVE ScheduleInto(_, _, _, _)
ScheduleInto(f, slots, n, job) ==
  IF n = 0 \/ slots = {} THEN f
  ELSE LET i == CHOOSE x \in IdleSlots(f, slots) : \A y \in IdleSlots(f, slots) : x <= y
       IN ScheduleInto([f EXCEPT ![i] = job], slots, n - 1, job)

\* the enrichment state of a world whose story draft has been generated
InitEnrichment ==
  /\ themeMutations = <<>>
  /\ extractors = [e \in ExtractorIds |-> IdleExtractor]
  /\ storyDrafts = <<[originalTheme |-> "themeA", currentVersion |-> 1]>>
  /\ drafters = [d \in DrafterIds |-> IdleDrafter]
  /\ draftGenerators = [g \in DraftGeneratorIds |-> IdleDraftGenerator]

NoCheck == [shouldTrigger |-> FALSE, reason |-> "none", prioritizeHuman |-> FALSE]

(* ---------------- initial states ---------------- *)
\* a world whose plot exists, whose story has k passages and whose plot has
\* counted c dialogues
InitStory(k, c) ==
  /\ now = Epoch
  /\ ticks = 0
  /\ resets = 0
  /\ nextMessageId = 1
  /\ messages = <<>>
  /\ pushState = <<>>
  /\ worldStory = [i \in 1..k |-> HistoricPassage(i)]
  /\ worldPlot = <<[NewPlot("themeA") EXCEPT
                      !.processedMessageIds = {0 - i : i \in 1..k},
                      !.storyProgress = getPassagePhase(k),
                      !.totalDialogueCount = c]>>
  /\ jobs = [j \in JobIds |-> IdleJob]
  /\ finalizers = [f \in FinalizerIds |-> IdleFinalizer]
  /\ failures = <<>>
  /\ plotCall = NoCall
  /\ summarizers = [s \in SummarizerIds |-> IdleSummarizer]
  /\ triggerCheck = NoCheck
  /\ InitEnrichment

\* every passage so far was written from one dialogue
InitWith(counts) == \E k \in counts : InitStory(k, k)

Init == InitWith(InitPassageCounts)

(* ---------------- environment ---------------- *)
TickWithin(d, limit) ==
  /\ ticks < limit
  /\ now' = now + d
  /\ ticks' = ticks + 1
  /\ UNCHANGED <<resets, nextMessageId, messages, pushState, worldPlot,
                 worldStory, jobs, finalizers, triggerCheck>>
  /\ UNCHANGED enrichVars
  /\ UNCHANGED failures
  /\ UNCHANGED plotCall
  /\ UNCHANGED summarizers

Tick(d) == TickWithin(d, MaxTicks)

\* writeMessage: a participant's utterance is inserted into table messages
WriteMessage(author, conversationId, limit) ==
  /\ nextMessageId <= limit
  /\ messages' = Append(messages, [id |-> nextMessageId, author |-> author,
                                   conversationId |-> conversationId,
                                   creationTime |-> now])
  /\ pushState' = Append(pushState, [st |-> "new", playerId |-> author,
                                     conversationId |-> conversationId])
  /\ nextMessageId' = nextMessageId + 1
  /\ UNCHANGED <<now, ticks, resets, worldPlot, worldStory, jobs, finalizers,
                 triggerCheck>>
  /\ UNCHANGED enrichVars
  /\ UNCHANGED failures
  /\ UNCHANGED plotCall
  /\ UNCHANGED summarizers

(* ---------------- pushToConversationStack (event path) ---------------- *)
\* first half of the action: isPlayerHuman, then pushToConversationStackMutation;
\* timestamp is the argument the caller of the action passed
PushToConversationStackMutation(id, cap, timestamp) ==
  /\ pushState[id].st = "new"
  /\ HasPlot => Len(Plot.conversationStacks[pushState[id].playerId]) < cap
  /\ pushState' = [pushState EXCEPT ![id].st = "pushed"]
  /\ IF HasPlot
     THEN worldPlot' = [worldPlot EXCEPT ![1].conversationStacks =
                          PushedStacks(Plot, pushState[id].playerId, id,
                                       pushState[id].conversationId, timestamp)]
     ELSE UNCHANGED worldPlot
  /\ UNCHANGED <<now, ticks, resets, nextMessageId, messages, worldStory, jobs,
                 finalizers, triggerCheck>>
  /\ UNCHANGED enrichVars
  /\ UNCHANGED failures
  /\ UNCHANGED plotCall
  /\ UNCHANGED summarizers

\* second half: shouldTriggerStoryGeneration, then scheduler.runAfter
PushToConversationStackTrigger(id, slots) ==
  /\ pushState[id].st = "pushed"
  /\ LET isHuman == pushState[id].playerId \in HumanPlayerIds
         check == shouldTriggerStoryGeneration(isHuman)
     IN IF check.shouldTrigger
        THEN /\ HasIdleJob(slots)
             /\ jobs' = ScheduleGenerateNarrative(slots)
             /\ pushState' = [pushState EXCEPT ![id].st = "fired"]
        ELSE /\ UNCHANGED jobs
             /\ pushState' = [pushState EXCEPT ![id].st = "quiet"]
  /\ UNCHANGED <<now, ticks, resets, nextMessageId, messages, worldPlot,
                 worldStory, finalizers, triggerCheck>>
  /\ UNCHANGED enrichVars
  /\ UNCHANGED failures
  /\ UNCHANGED plotCall
  /\ UNCHANGED summarizers

(* ---------------- crons.ts ---------------- *)
\* generateWorldStories: schedules generateNarrative for the world, ungated
GenerateWorldStories(slots) ==
  /\ HasIdleJob(slots)
  /\ jobs' = ScheduleGenerateNarrative(slots)
  /\ UNCHANGED <<now, ticks, resets, nextMessageId, messages, pushState,
                 worldPlot, worldStory, finalizers, triggerCheck>>
  /\ UNCHANGED enrichVars
  /\ UNCHANGED failures
  /\ UNCHANGED plotCall
  /\ UNCHANGED summarizers

\* vacuumOldEntries + vacuumTable on tables worldStory and messages: every row
\* created before (now - VACUUM_MAX_AGE) is deleted
VacuumOldEntries ==
  LET before == now - VACUUM_MAX_AGE
  IN /\ \/ \E i \in 1..Len(worldStory) : worldStory[i].timestamp < before
        \/ \E i \in 1..Len(messages) : messages[i].creationTime < before
     /\ worldStory' = SelectSeq(worldStory, LAMBDA r : ~(r.timestamp < before))
     /\ messages' = SelectSeq(messages, LAMBDA m : ~(m.creationTime < before))
     /\ UNCHANGED <<now, ticks, resets, nextMessageId, pushState, worldPlot,
                    jobs, finalizers, triggerCheck>>
     /\ UNCHANGED enrichVars
     /\ UNCHANGED failures
     /\ UNCHANGED plotCall
     /\ UNCHANGED summarizers

(* ---------------- generateNarrative ---------------- *)
\* syncMessagesToStacks, first query: getWorldPlot
SyncGetWorldPlot(j) ==
  /\ jobs[j].pc = "scheduled"
  /\ jobs' = IF HasPlot
             THEN [jobs EXCEPT ![j].pc = "syncMessages",
                               ![j].sinceTime = Plot.lastProcessedMessageTime]
             ELSE [jobs EXCEPT ![j].pc = "getData"]
  /\ UNCHANGED <<now, ticks, resets, nextMessageId, messages, pushState,
                 worldPlot, worldStory, finalizers, triggerCheck>>
  /\ UNCHANGED enrichVars
  /\ UNCHANGED failures
  /\ UNCHANGED plotCall
  /\ UNCHANGED summarizers

\* syncMessagesToStacks, second query: getAllMessagesSince
SyncGetAllMessagesSince(j) ==
  /\ jobs[j].pc = "syncMessages"
  /\ LET newMessages ==
           SelectSeq(messages, LAMBDA m : m.creationTime > jobs[j].sinceTime)
     IN jobs' = IF Len(newMessages) = 0
                THEN [jobs EXCEPT ![j].pc = "getData", ![j].sinceTime = 0]
                ELSE [jobs EXCEPT ![j].pc = "syncPush", ![j].sinceTime = 0,
                                  ![j].toPush = newMessages]
  /\ UNCHANGED <<now, ticks, resets, nextMessageId, messages, pushState,
                 worldPlot, worldStory, finalizers, triggerCheck>>
  /\ UNCHANGED enrichVars
  /\ UNCHANGED failures
  /\ UNCHANGED plotCall
  /\ UNCHANGED summarizers

\* syncMessagesToStacks, loop body: one pushToConversationStackMutation
SyncPush(j, cap) ==
  /\ jobs[j].pc = "syncPush"
  /\ LET msg == Head(jobs[j].toPush)
         rest == Tail(jobs[j].toPush)
     IN /\ HasPlot => Len(Plot.conversationStacks[msg.author]) < cap
        /\ IF HasPlot
           THEN worldPlot' = [worldPlot EXCEPT ![1].conversationStacks =
                                PushedStacks(Plot, msg.author, msg.id,
                                             msg.conversationId, msg.creationTime)]
           ELSE UNCHANGED worldPlot
        /\ jobs' = [jobs EXCEPT ![j].toPush = rest,
                                ![j].pc = IF rest = <<>> THEN "getData" ELSE "syncPush"]
  /\ UNCHANGED <<now, ticks, resets, nextMessageId, messages, pushState,
                 worldStory, finalizers, triggerCheck>>
  /\ UNCHANGED enrichVars
  /\ UNCHANGED failures
  /\ UNCHANGED plotCall
  /\ UNCHANGED summarizers

\* variant whose getNarrativeData returns its data also when no stacked entry
\* is unprocessed
GetNarrativeDataOfNothing(j) ==
  /\ jobs[j].pc = "getData"
  /\ LET allStackMessages == IF HasPlot THEN CollectUnprocessed(Plot, 1) ELSE <<>>
         passageCount == Len(worldStory)
     IN jobs' = IF ~HasPlot
                THEN [jobs EXCEPT ![j] = IdleJob]
                ELSE IF passageCount >= MAX_PASSAGES
                THEN [jobs EXCEPT ![j] = IdleJob]
                ELSE [jobs EXCEPT ![j].pc = "chat",
                                  ![j].batch = Range(allStackMessages),
                                  ![j].passageCount = passageCount]
  /\ UNCHANGED <<now, ticks, resets, nextMessageId, messages, pushState,
                 worldPlot, worldStory, finalizers, triggerCheck>>
  /\ UNCHANGED enrichVars
  /\ UNCHANGED failures
  /\ UNCHANGED plotCall
  /\ UNCHANGED summarizers

\* variant whose getNarrativeData takes every stacked entry, processed or not
GetNarrativeDataUnfiltered(j) ==
  /\ jobs[j].pc = "getData"
  /\ LET allStackMessages ==
           IF HasPlot
           THEN UNION {Range(Tagged(Plot.conversationStacks[p], p)) : p \in Players}
           ELSE {}
         passageCount == Len(worldStory)
     IN jobs' = IF ~HasPlot \/ allStackMessages = {}
                THEN [jobs EXCEPT ![j] = IdleJob]
                ELSE IF passageCount >= MAX_PASSAGES
                THEN [jobs EXCEPT ![j] = IdleJob]
                ELSE [jobs EXCEPT ![j].pc = "chat",
                                  ![j].batch = allStackMessages,
                                  ![j].passageCount = passageCount]
  /\ UNCHANGED <<now, ticks, resets, nextMessageId, messages, pushState,
                 worldPlot, worldStory, finalizers, triggerCheck>>
  /\ UNCHANGED enrichVars
  /\ UNCHANGED failures
  /\ UNCHANGED plotCall
  /\ UNCHANGED summarizers

\* getNarrativeData, then the null check and the MAX_PASSAGES check
GetNarrativeData(j) ==
  /\ jobs[j].pc = "getData"
  /\ LET allStackMessages == IF HasPlot THEN CollectUnprocessed(Plot, 1) ELSE <<>>
         passageCount == Len(worldStory)
     IN jobs' = IF ~HasPlot \/ Len(allStackMessages) = 0
                THEN [jobs EXCEPT ![j] = IdleJob]
                ELSE IF passageCount >= MAX_PASSAGES
                THEN [jobs EXCEPT ![j] = IdleJob]
                ELSE [jobs EXCEPT ![j].pc = "chat",
                                  ![j].batch = Range(allStackMessages),
                                  ![j].passageCount = passageCount]
  /\ UNCHANGED <<now, ticks, resets, nextMessageId, messages, pushState,
                 worldPlot, worldStory, finalizers, triggerCheck>>
  /\ UNCHANGED enrichVars
  /\ UNCHANGED failures
  /\ UNCHANGED plotCall
  /\ UNCHANGED summarizers

\* variant whose catch block stamps the generation time before it returns
ChatCompletionFailsStamping(j) ==
  /\ jobs[j].pc = "chat"
  /\ Len(failures) < MaxFailures
  /\ failures' = Append(failures, {m.messageId : m \in jobs[j].batch})
  /\ jobs' = [jobs EXCEPT ![j] = IdleJob]
  /\ IF HasPlot
     THEN worldPlot' = [worldPlot EXCEPT ![1].lastStoryGenerationTime = now]
     ELSE UNCHANGED worldPlot
  /\ UNCHANGED <<now, ticks, resets, nextMessageId, messages, pushState,
                 worldStory, finalizers, triggerCheck>>
  /\ UNCHANGED enrichVars
  /\ UNCHANGED plotCall
  /\ UNCHANGED summarizers

\* chatCompletion throws: the catch block returns null
ChatCompletionFails(j) ==
  /\ jobs[j].pc = "chat"
  /\ Len(failures) < MaxFailures
  /\ failures' = Append(failures, {m.messageId : m \in jobs[j].batch})
  /\ jobs' = [jobs EXCEPT ![j] = IdleJob]
  /\ UNCHANGED <<now, ticks, resets, nextMessageId, messages, pushState,
                 worldPlot, worldStory, finalizers, triggerCheck>>
  /\ UNCHANGED enrichVars
  /\ UNCHANGED plotCall
  /\ UNCHANGED summarizers

\* the row saveNarrative inserts for a firing that read passageCount passages
\* and the batch messagesWithAuthors; passageNumber, phase and isFinalPassage
\* are the values generateNarrative computed for this row (they shape its
\* prompt and its return value), kept here with the row they belong to
NewPassage(messagesWithAuthors, passageCount) ==
  LET nextPassageNumber == passageCount + 1
  IN [sourceMessages |-> {m.messageId : m \in messagesWithAuthors},
      characterNames |-> {m.playerId : m \in messagesWithAuthors},
      timestamp |-> now,
      passageNumber |-> nextPassageNumber,
      phase |-> getPassagePhase(nextPassageNumber),
      isFinalPassage |-> (nextPassageNumber = MAX_PASSAGES)]

\* generateNarrative's conversationIds: the distinct conversations of the batch
conversationIds(messagesWithAuthors) ==
  {m.conversationId : m \in messagesWithAuthors}

\* saveNarrative: (plot.totalDialogueCount || 0) + new Set(conversationIds).size
newDialogueCount(plot, messagesWithAuthors) ==
  plot.totalDialogueCount + Cardinality(conversationIds(messagesWithAuthors))

\* saveNarrative's shouldGeneratePlotSummary
shouldGeneratePlotSummary(count) ==
  /\ count >= PLOT_SUMMARY_DIALOGUES
  /\ (count % PLOT_SUMMARY_DIALOGUES = 0 \/ count = PLOT_SUMMARY_DIALOGUES)

\* the summary action saveNarrative schedules
ScheduledSummary(plot, messagesWithAuthors) ==
  [IdleSummarizer EXCEPT
     !.pc = "scheduled",
     !.kind = IF shouldGeneratePlotSummary(newDialogueCount(plot, messagesWithAuthors))
              THEN "generatePlotSummaryWithUnprocessed"
              ELSE "generatePlotSummary"]

\* variant that overwrites processedMessageIds with the ids of the batch
SavedPlotOverwritingIds(plot, messagesWithAuthors) ==
  [plot EXCEPT
     !.lastProcessedMessageTime = Max({m.timestamp : m \in messagesWithAuthors}),
     !.processedMessageIds = {m.messageId : m \in messagesWithAuthors},
     !.lastStoryGenerationTime = now,
     !.totalDialogueCount = newDialogueCount(plot, messagesWithAuthors),
     !.conversationStacks = EmptyStacks]

\* saveNarrative's patch of the plot row
SavedPlot(plot, messagesWithAuthors) ==
  [plot EXCEPT
     !.lastProcessedMessageTime = Max({m.timestamp : m \in messagesWithAuthors}),
     !.processedMessageIds = @ \cup {m.messageId : m \in messagesWithAuthors},
     !.lastStoryGenerationTime = now,
     !.totalDialogueCount = newDialogueCount(plot, messagesWithAuthors),
     !.conversationStacks = EmptyStacks]

\* variant that inserts the row twice
InsertedPassageTwice(story, row) == Append(Append(story, row), row)

\* saveNarrative: ctx.db.insert('worldStory', ...)
InsertedPassage(story, row) == Append(story, row)

\* chatCompletion returns; saveNarrative commits and, when it finds the plot,
\* schedules the theme extractor; generateNarrative schedules the theme
\* extractor again and alterStoryDraft; the final-passage branch schedules
\* generateFinalSummary
SaveNarrative(j, extractorSlots, drafterSlots, finalizerSlots, summarySlots) ==
  /\ jobs[j].pc = "chat"
  /\ CanSchedule(summarizers, summarySlots, IF HasPlot THEN 1 ELSE 0)
  /\ summarizers' = IF HasPlot
                    THEN ScheduleInto(summarizers, summarySlots, 1,
                                      ScheduledSummary(Plot, jobs[j].batch))
                    ELSE summarizers
  /\ CanSchedule(extractors, extractorSlots, IF HasPlot THEN 2 ELSE 1)
  /\ CanSchedule(drafters, drafterSlots, 1)
  /\ extractors' = ScheduleInto(extractors, extractorSlots, IF HasPlot THEN 2 ELSE 1,
                                [IdleExtractor EXCEPT !.pc = "scheduled"])
  /\ drafters' = ScheduleInto(drafters, drafterSlots, 1,
                              [IdleDrafter EXCEPT !.pc = "scheduled"])
  /\ UNCHANGED <<themeMutations, storyDrafts, draftGenerators>>
  /\ worldStory' = InsertedPassage(worldStory,
                                  NewPassage(jobs[j].batch, jobs[j].passageCount))
  /\ IF HasPlot
     THEN worldPlot' = [worldPlot EXCEPT ![1] = SavedPlot(Plot, jobs[j].batch)]
     ELSE UNCHANGED worldPlot
  /\ IF jobs[j].passageCount + 1 = MAX_PASSAGES
     THEN \E f \in finalizerSlots :
            /\ finalizers[f].pc = "idle"
            /\ \A g \in finalizerSlots : finalizers[g].pc = "idle" => f <= g
            /\ finalizers' = [finalizers EXCEPT
                                ![f] = [IdleFinalizer EXCEPT !.pc = "scheduled"]]
     ELSE UNCHANGED finalizers
  /\ jobs' = [jobs EXCEPT ![j] = IdleJob]
  /\ UNCHANGED <<now, ticks, resets, nextMessageId, messages, pushState,
                 triggerCheck>>
  /\ UNCHANGED failures
  /\ UNCHANGED plotCall

(* ---------------- generateFinalSummary ---------------- *)
\* getWorldStory(limit MAX_PASSAGES) and the "not enough passages" return
FinalGetWorldStory(f) ==
  /\ finalizers[f].pc = "scheduled"
  /\ finalizers' = [finalizers EXCEPT
       ![f] = IF Len(worldStory) < MAX_PASSAGES
              THEN [@ EXCEPT !.pc = "idle", !.returned = Null]
              ELSE [@ EXCEPT !.pc = "getPlot"]]
  /\ UNCHANGED <<now, ticks, resets, nextMessageId, messages, pushState,
                 worldPlot, worldStory, jobs, triggerCheck>>
  /\ UNCHANGED enrichVars
  /\ UNCHANGED failures
  /\ UNCHANGED plotCall
  /\ UNCHANGED summarizers

NeverGenerated(plot) == FALSE

\* the "already generated" test: plot.isComplete && plot.finalSummary
AlreadyGenerated(plot) ==
  plot.isComplete /\ plot.finalSummary \notin {Undefined, ""}

\* getWorldPlot and the "already generated" return
FinalGetWorldPlot(f) ==
  /\ finalizers[f].pc = "getPlot"
  /\ finalizers' = [finalizers EXCEPT
       ![f] = IF ~HasPlot THEN [@ EXCEPT !.pc = "idle", !.returned = Null]
              ELSE IF AlreadyGenerated(Plot)
              THEN [@ EXCEPT !.pc = "idle", !.stored = Plot.finalSummary,
                             !.returned = Plot.finalSummary]
              ELSE [@ EXCEPT !.pc = "chat",
                             !.stored = IF Plot.isComplete THEN Plot.finalSummary
                                        ELSE Undefined]]
  /\ UNCHANGED <<now, ticks, resets, nextMessageId, messages, pushState,
                 worldPlot, worldStory, jobs, triggerCheck>>
  /\ UNCHANGED enrichVars
  /\ UNCHANGED failures
  /\ UNCHANGED plotCall
  /\ UNCHANGED summarizers

FinalChatCompletionFails(f) ==
  /\ finalizers[f].pc = "chat"
  /\ finalizers' = [finalizers EXCEPT ![f] = [@ EXCEPT !.pc = "idle", !.returned = Null]]
  /\ UNCHANGED <<now, ticks, resets, nextMessageId, messages, pushState,
                 worldPlot, worldStory, jobs, triggerCheck>>
  /\ UNCHANGED enrichVars
  /\ UNCHANGED failures
  /\ UNCHANGED plotCall
  /\ UNCHANGED summarizers

\* chatCompletion returns; updatePlotCompletion commits
UpdatePlotCompletion(f, cleanSummary) ==
  /\ finalizers[f].pc = "chat"
  /\ finalizers' = [finalizers EXCEPT
                      ![f] = [@ EXCEPT !.pc = "idle", !.returned = cleanSummary]]
  /\ IF HasPlot
     THEN worldPlot' = [worldPlot EXCEPT ![1].finalSummary = cleanSummary,
                                         ![1].isComplete = TRUE]
     ELSE UNCHANGED worldPlot
  /\ UNCHANGED <<now, ticks, resets, nextMessageId, messages, pushState,
                 worldStory, jobs, triggerCheck>>
  /\ UNCHANGED enrichVars
  /\ UNCHANGED failures
  /\ UNCHANGED plotCall
  /\ UNCHANGED summarizers

(* ---------------- extractAndSaveThemeMutation ---------------- *)
RECURSIVE InsertByIndex(_, _)
\* row r put into the list sorted, after the rows whose mutationIndex is not greater
InsertByIndex(sorted, r) ==
  IF sorted = <<>> THEN <<r>>
  ELSE IF Head(sorted).mutationIndex <= r.mutationIndex
       THEN <<Head(sorted)>> \o InsertByIndex(Tail(sorted), r)
       ELSE <<r>> \o sorted

RECURSIVE SortByIndex(_)
\* mutations.sort((a, b) => a.mutationIndex - b.mutationIndex), a stable sort
SortByIndex(rows) ==
  IF rows = <<>> THEN <<>>
  ELSE InsertByIndex(SortByIndex(SubSeq(rows, 1, Len(rows) - 1)), rows[Len(rows)])

\* getThemeMutations: the rows of the world sorted by mutationIndex
getThemeMutations == SortByIndex(themeMutations)

\* extractThemeMutation: getWorldPlot and the "no plot" return
ExtractGetWorldPlot(e) ==
  /\ extractors[e].pc = "scheduled"
  /\ extractors' = IF HasPlot THEN [extractors EXCEPT ![e].pc = "chat"]
                   ELSE [extractors EXCEPT ![e] = IdleExtractor]
  /\ UNCHANGED <<now, ticks, resets, nextMessageId, messages, pushState, worldPlot,
                 worldStory, jobs, finalizers, triggerCheck, themeMutations,
                 storyDrafts, drafters, draftGenerators>>
  /\ UNCHANGED failures
  /\ UNCHANGED plotCall
  /\ UNCHANGED summarizers

\* variant whose failure takes back the passage the job was scheduled for
ExtractThemeMutationFailsRollingBack(e) ==
  /\ extractors[e].pc = "chat"
  /\ extractors' = [extractors EXCEPT ![e] = IdleExtractor]
  /\ worldStory' = SubSeq(worldStory, 1, Len(worldStory) - 1)
  /\ UNCHANGED <<now, ticks, resets, nextMessageId, messages, pushState, worldPlot,
                 jobs, finalizers, triggerCheck, themeMutations,
                 storyDrafts, drafters, draftGenerators>>
  /\ UNCHANGED failures
  /\ UNCHANGED plotCall
  /\ UNCHANGED summarizers

\* chatCompletion throws: the mutation is null and
\* extractAndSaveThemeMutation returns
ExtractThemeMutationFails(e) ==
  /\ extractors[e].pc = "chat"
  /\ extractors' = [extractors EXCEPT ![e] = IdleExtractor]
  /\ UNCHANGED <<now, ticks, resets, nextMessageId, messages, pushState, worldPlot,
                 worldStory, jobs, finalizers, triggerCheck, themeMutations,
                 storyDrafts, drafters, draftGenerators>>
  /\ UNCHANGED failures
  /\ UNCHANGED plotCall
  /\ UNCHANGED summarizers

\* variant that takes every brace-enclosed fragment for an object
parseThemeMutationLenient(content) ==
  IF content.fragment = "none" THEN {} ELSE {[newTheme |-> content.newTheme]}

\* content.match(/\{[\s\S]*\}/) and JSON.parse: the mutation objects the
\* content yields (none: extractThemeMutation returns null)
parseThemeMutation(content) ==
  IF content.fragment = "object" THEN {[newTheme |-> content.newTheme]} ELSE {}

\* chatCompletion returns content: without a parsed object the job returns,
\* with one it goes on to its reads and writes
ExtractThemeMutation(e, content) ==
  /\ extractors[e].pc = "chat"
  /\ extractors' =
       IF parseThemeMutation(content) = {}
       THEN [extractors EXCEPT ![e] = IdleExtractor]
       ELSE LET mutation == CHOOSE m \in parseThemeMutation(content) : TRUE
            IN [extractors EXCEPT ![e].pc = "count",
                                  ![e].newTheme = mutation.newTheme]
  /\ UNCHANGED <<now, ticks, resets, nextMessageId, messages, pushState, worldPlot,
                 worldStory, jobs, finalizers, triggerCheck, themeMutations,
                 storyDrafts, drafters, draftGenerators>>
  /\ UNCHANGED failures
  /\ UNCHANGED plotCall
  /\ UNCHANGED summarizers

\* getThemeMutations: mutationIndex = existingMutations.length
ExtractGetThemeMutations(e) ==
  /\ extractors[e].pc = "count"
  /\ extractors' = [extractors EXCEPT ![e].pc = "plot",
                                      ![e].mutationIndex = Len(getThemeMutations)]
  /\ UNCHANGED <<now, ticks, resets, nextMessageId, messages, pushState, worldPlot,
                 worldStory, jobs, finalizers, triggerCheck, themeMutations,
                 storyDrafts, drafters, draftGenerators>>
  /\ UNCHANGED failures
  /\ UNCHANGED plotCall
  /\ UNCHANGED summarizers

\* plot?.evolvedTheme || plot?.initialPlot || ''
PreviousTheme ==
  IF ~HasPlot THEN ""
  ELSE IF Plot.evolvedTheme \notin {Undefined, ""} THEN Plot.evolvedTheme
  ELSE Plot.initialPlot

\* getWorldPlot: the previous theme
ExtractGetPreviousTheme(e) ==
  /\ extractors[e].pc = "plot"
  /\ extractors' = [extractors EXCEPT ![e].pc = "save",
                                      ![e].previousTheme = PreviousTheme,
                                      ![e].plotFound = HasPlot]
  /\ UNCHANGED <<now, ticks, resets, nextMessageId, messages, pushState, worldPlot,
                 worldStory, jobs, finalizers, triggerCheck, themeMutations,
                 storyDrafts, drafters, draftGenerators>>
  /\ UNCHANGED failures
  /\ UNCHANGED plotCall
  /\ UNCHANGED summarizers

\* mutation.newTheme || previousTheme
EvolvedThemeOf(x) == IF x.newTheme # "" THEN x.newTheme ELSE x.previousTheme

\* saveThemeMutation: the row is inserted with the index and the previous
\* theme the action read before
SaveThemeMutation(e) ==
  /\ extractors[e].pc = "save"
  /\ themeMutations' = Append(themeMutations,
       [mutationIndex |-> extractors[e].mutationIndex,
        previousTheme |-> extractors[e].previousTheme,
        newTheme |-> EvolvedThemeOf(extractors[e])])
  /\ extractors' = IF extractors[e].plotFound
                   THEN [extractors EXCEPT ![e].pc = "update"]
                   ELSE [extractors EXCEPT ![e] = IdleExtractor]
  /\ UNCHANGED <<now, ticks, resets, nextMessageId, messages, pushState, worldPlot,
                 worldStory, jobs, finalizers, triggerCheck, storyDrafts, drafters,
                 draftGenerators>>
  /\ UNCHANGED failures
  /\ UNCHANGED plotCall
  /\ UNCHANGED summarizers

\* updateEvolvedTheme
UpdateEvolvedTheme(e) ==
  /\ extractors[e].pc = "update"
  /\ IF HasPlot
     THEN worldPlot' = [worldPlot EXCEPT ![1].evolvedTheme = EvolvedThemeOf(extractors[e])]
     ELSE UNCHANGED worldPlot
  /\ extractors' = [extractors EXCEPT ![e] = IdleExtractor]
  /\ UNCHANGED <<now, ticks, resets, nextMessageId, messages, pushState,
                 worldStory, jobs, finalizers, triggerCheck, themeMutations,
                 storyDrafts, drafters, draftGenerators>>
  /\ UNCHANGED failures
  /\ UNCHANGED plotCall
  /\ UNCHANGED summarizers

(* ---------------- story draft ---------------- *)
\* saveStoryDraft: patch the existing row, or insert one
saveStoryDraft(originalTheme, currentVersion) ==
  IF Len(storyDrafts) > 0
  THEN [storyDrafts EXCEPT ![1].currentVersion = currentVersion]
  ELSE Append(storyDrafts, [originalTheme |-> originalTheme,
                            currentVersion |-> currentVersion])

\* alterStoryDraft: getStoryDraft and the "no draft" return
AlterGetStoryDraft(d) ==
  /\ drafters[d].pc = "scheduled"
  /\ drafters' = IF Len(storyDrafts) = 0
                 THEN [drafters EXCEPT ![d] = IdleDrafter]
                 ELSE [drafters EXCEPT ![d] =
                         [pc |-> "chat", originalTheme |-> storyDrafts[1].originalTheme,
                          currentVersion |-> storyDrafts[1].currentVersion]]
  /\ UNCHANGED <<now, ticks, resets, nextMessageId, messages, pushState, worldPlot,
                 worldStory, jobs, finalizers, triggerCheck, themeMutations,
                 extractors, storyDrafts, draftGenerators>>
  /\ UNCHANGED failures
  /\ UNCHANGED plotCall
  /\ UNCHANGED summarizers

\* chatCompletion throws: alterStoryDraft rethrows
AlterStoryDraftFails(d) ==
  /\ drafters[d].pc = "chat"
  /\ drafters' = [drafters EXCEPT ![d] = IdleDrafter]
  /\ UNCHANGED <<now, ticks, resets, nextMessageId, messages, pushState, worldPlot,
                 worldStory, jobs, finalizers, triggerCheck, themeMutations,
                 extractors, storyDrafts, draftGenerators>>
  /\ UNCHANGED failures
  /\ UNCHANGED plotCall
  /\ UNCHANGED summarizers

\* chatCompletion returns; saveStoryDraft(currentDraft.currentVersion + 1)
AlterSaveStoryDraft(d) ==
  /\ drafters[d].pc = "chat"
  /\ storyDrafts' = saveStoryDraft(drafters[d].originalTheme,
                                   drafters[d].currentVersion + 1)
  /\ drafters' = [drafters EXCEPT ![d] = IdleDrafter]
  /\ UNCHANGED <<now, ticks, resets, nextMessageId, messages, pushState, worldPlot,
                 worldStory, jobs, finalizers, triggerCheck, themeMutations,
                 extractors, draftGenerators>>
  /\ UNCHANGED failures
  /\ UNCHANGED plotCall
  /\ UNCHANGED summarizers

\* generateStoryDraft: chatCompletion throws
GenerateStoryDraftFails(g) ==
  /\ draftGenerators[g].pc = "chat"
  /\ draftGenerators' = [draftGenerators EXCEPT ![g] = IdleDraftGenerator]
  /\ UNCHANGED <<now, ticks, resets, nextMessageId, messages, pushState, worldPlot,
                 worldStory, jobs, finalizers, triggerCheck, themeMutations,
                 extractors, storyDrafts, drafters>>
  /\ UNCHANGED failures
  /\ UNCHANGED plotCall
  /\ UNCHANGED summarizers

\* generateStoryDraft: chatCompletion returns; saveStoryDraft(theme, 1)
GenerateStoryDraftSave(g) ==
  /\ draftGenerators[g].pc = "chat"
  /\ storyDrafts' = saveStoryDraft(draftGenerators[g].theme, 1)
  /\ draftGenerators' = [draftGenerators EXCEPT ![g] = IdleDraftGenerator]
  /\ UNCHANGED <<now, ticks, resets, nextMessageId, messages, pushState, worldPlot,
                 worldStory, jobs, finalizers, triggerCheck, themeMutations,
                 extractors, drafters>>
  /\ UNCHANGED failures
  /\ UNCHANGED plotCall
  /\ UNCHANGED summarizers

(* ---------------- plot creation and reset ---------------- *)
\* variant without the check for an existing row
createWorldPlotUnchecked(initialPlot) ==
  Append(worldPlot, NewPlot(initialPlot))

\* createWorldPlot: the table after the mutation
createWorldPlot(initialPlot) ==
  IF HasPlot THEN worldPlot ELSE Append(worldPlot, NewPlot(initialPlot))

\* createWorldPlot: the id it returns
createWorldPlotId == IF HasPlot THEN Plot._id ELSE resets + 1

\* the internal mutation createWorldPlot run by a caller other than
\* setInitialPlot, at any moment
CreateWorldPlotCall(initialPlot) ==
  /\ worldPlot' = createWorldPlot(initialPlot)
  /\ plotCall' = [fn |-> "createWorldPlot", initialPlot |-> initialPlot,
                  returned |-> createWorldPlotId]
  /\ UNCHANGED <<now, ticks, resets, nextMessageId, messages, pushState,
                 worldStory, jobs, finalizers, triggerCheck>>
  /\ UNCHANGED enrichVars
  /\ UNCHANGED failures
  /\ UNCHANGED summarizers

\* initializeWorldPlot: returns the existing plot, or null; creates nothing
initializeWorldPlot ==
  /\ plotCall' = [fn |-> "initializeWorldPlot", initialPlot |-> "",
                  returned |-> IF HasPlot THEN Plot._id ELSE NoPlotId]
  /\ UNCHANGED <<now, ticks, resets, nextMessageId, messages, pushState,
                 worldPlot, worldStory, jobs, finalizers, triggerCheck>>
  /\ UNCHANGED enrichVars
  /\ UNCHANGED failures
  /\ UNCHANGED summarizers

\* setInitialPlot on a world without plot: the plot is created and
\* generateStoryDraft is scheduled
setInitialPlot(initialPlot, generatorSlots) ==
  /\ ~HasPlot
  /\ worldPlot' = createWorldPlot(initialPlot)
  /\ CanSchedule(draftGenerators, generatorSlots, 1)
  /\ draftGenerators' = ScheduleInto(draftGenerators, generatorSlots, 1,
                                     [pc |-> "chat", theme |-> initialPlot])
  /\ UNCHANGED <<now, ticks, resets, nextMessageId, messages, pushState,
                 worldStory, jobs, finalizers, triggerCheck>>
  /\ UNCHANGED <<themeMutations, extractors, storyDrafts, drafters>>
  /\ UNCHANGED failures
  /\ UNCHANGED plotCall
  /\ UNCHANGED summarizers

resetWorldStory ==
  /\ resets < MaxResets
  /\ resets' = resets + 1
  /\ worldStory' = <<>>
  /\ worldPlot' = <<>>
  /\ messages' = <<>>
  /\ UNCHANGED <<now, ticks, nextMessageId, pushState, jobs, finalizers,
                 triggerCheck>>
  /\ UNCHANGED enrichVars
  /\ UNCHANGED failures
  /\ UNCHANGED plotCall
  /\ UNCHANGED summarizers

(* ---------------- plot summaries ---------------- *)
\* crons.ts generatePlotSummaries: schedules generatePlotSummary for the world
GeneratePlotSummaries(slots) ==
  /\ IdleSlots(summarizers, slots) # {}
  /\ summarizers' = ScheduleInto(summarizers, slots, 1,
                                 [IdleSummarizer EXCEPT !.pc = "scheduled",
                                                        !.kind = "generatePlotSummary"])
  /\ UNCHANGED <<now, ticks, resets, nextMessageId, messages, pushState,
                 worldPlot, worldStory, jobs, finalizers, triggerCheck>>
  /\ UNCHANGED enrichVars
  /\ UNCHANGED failures
  /\ UNCHANGED plotCall

\* getPlotSummaryData, read by both summary actions: null without a plot or
\* without a passage, else the newest SUMMARY_STORY_LIMIT passages are counted
GetPlotSummaryData(s) ==
  /\ summarizers[s].pc = "scheduled"
  /\ LET recentStories == IF Len(worldStory) <= SUMMARY_STORY_LIMIT
                          THEN Len(worldStory) ELSE SUMMARY_STORY_LIMIT
     IN summarizers' =
          IF ~HasPlot \/ recentStories = 0
          THEN [summarizers EXCEPT ![s] = IdleSummarizer]
          ELSE [summarizers EXCEPT ![s].pc = "chat",
                                   ![s].storyCount = recentStories]
  /\ UNCHANGED <<now, ticks, resets, nextMessageId, messages, pushState,
                 worldPlot, worldStory, jobs, finalizers, triggerCheck>>
  /\ UNCHANGED enrichVars
  /\ UNCHANGED failures
  /\ UNCHANGED plotCall

\* chatCompletion throws: the catch block returns null
PlotSummaryFails(s) ==
  /\ summarizers[s].pc = "chat"
  /\ summarizers' = [summarizers EXCEPT ![s] = IdleSummarizer]
  /\ UNCHANGED <<now, ticks, resets, nextMessageId, messages, pushState,
                 worldPlot, worldStory, jobs, finalizers, triggerCheck>>
  /\ UNCHANGED enrichVars
  /\ UNCHANGED failures
  /\ UNCHANGED plotCall

\* chatCompletion returns content; updatePlotSummary patches the plot row it
\* finds with the cleaned summary and determineStoryProgress(storyCount)
UpdatePlotSummary(s, content) ==
  /\ summarizers[s].pc = "chat"
  /\ IF HasPlot
     THEN worldPlot' = [worldPlot EXCEPT
            ![1].currentSummary =
               IF summarizers[s].kind = "generatePlotSummaryWithUnprocessed"
               THEN cleanExpandedSummary(content)
               ELSE cleanPlotSummary(content),
            ![1].storyProgress = determineStoryProgress(summarizers[s].storyCount)]
     ELSE UNCHANGED worldPlot
  /\ summarizers' = [summarizers EXCEPT ![s] = IdleSummarizer]
  /\ UNCHANGED <<now, ticks, resets, nextMessageId, messages, pushState,
                 worldStory, jobs, finalizers, triggerCheck>>
  /\ UNCHANGED enrichVars
  /\ UNCHANGED failures
  /\ UNCHANGED plotCall

(* ---------------- specification: the concurrent pipeline ---------------- *)
Next ==
  \/ Tick(STORY_GENERATION_COOLDOWN)
  \/ \E a \in Players : WriteMessage(a, "c1", MaxMessages)
  \/ \E id \in DOMAIN pushState : PushToConversationStackMutation(id, MaxStackLen, now)
  \/ \E id \in DOMAIN pushState : PushToConversationStackTrigger(id, JobIds)
  \/ GenerateWorldStories(JobIds)
  \/ VacuumOldEntries
  \/ \E j \in JobIds : SyncGetWorldPlot(j)
  \/ \E j \in JobIds : SyncGetAllMessagesSince(j)
  \/ \E j \in JobIds : SyncPush(j, MaxStackLen)
  \/ \E j \in JobIds : GetNarrativeData(j)
  \/ \E j \in JobIds : ChatCompletionFails(j)
  \/ \E j \in JobIds : SaveNarrative(j, {}, {}, {1}, {})
  \/ \E f \in {1} : FinalGetWorldStory(f)
  \/ \E f \in {1} : FinalGetWorldPlot(f)
  \/ \E f \in {1} : FinalChatCompletionFails(f)
  \/ \E f \in {1}, t \in FinalSummaries : UpdatePlotCompletion(f, t)
  \/ \E th \in Themes : setInitialPlot(th, {})
  \/ resetWorldStory

Spec == Init /\ [][Next]_vars

(* ---------------- specification: the scenario of AI-only chatter ---------------- *)
\* a fresh story; one conversation C1 among AI players whose utterances
\* arrive by the event path, a second apart; no cron, no vacuum, no reset
ScenarioInit == InitWith({0})

\* the next utterance is spoken once the push of the previous one is through
NextUtterance(author) ==
  /\ \A id \in DOMAIN pushState : pushState[id].st \in {"fired", "quiet"}
  /\ WriteMessage(author, "c1", ScenarioMessages)

ScenarioNext ==
  \/ Tick(1000)
  \/ \E a \in AiPlayers : NextUtterance(a)
  \/ \E id \in DOMAIN pushState : PushToConversationStackMutation(id, ScenarioStackLen, now)
  \/ \E id \in DOMAIN pushState : PushToConversationStackTrigger(id, JobIds)
  \/ \E j \in JobIds : SyncGetWorldPlot(j)
  \/ \E j \in JobIds : SyncGetAllMessagesSince(j)
  \/ \E j \in JobIds : SyncPush(j, ScenarioStackLen)
  \/ \E j \in JobIds : GetNarrativeData(j)
  \/ \E j \in JobIds : ChatCompletionFails(j)
  \/ \E j \in JobIds : SaveNarrative(j, {}, {}, {1}, {})

ScenarioSpec == ScenarioInit /\ [][ScenarioNext]_vars

(* ---------------- specification: the story told one passage at a time ---------------- *)
\* a story at any stage, continued by the timer path with a single
\* generateNarrative in flight
StoryInit == InitWith(0..(MAX_PASSAGES - 1))

StoryNext ==
  \/ \E a \in Players : WriteMessage(a, "c1", MaxMessages)
  \/ GenerateWorldStories({1})
  \/ SyncGetWorldPlot(1)
  \/ SyncGetAllMessagesSince(1)
  \/ SyncPush(1, MaxStackLen)
  \/ GetNarrativeData(1)
  \/ ChatCompletionFails(1)
  \/ SaveNarrative(1, {}, {}, {1}, {})
  \/ \E f \in {1} : FinalGetWorldStory(f)
  \/ \E f \in {1} : FinalGetWorldPlot(f)
  \/ \E f \in {1} : FinalChatCompletionFails(f)
  \/ \E f \in {1}, t \in FinalSummaries : UpdatePlotCompletion(f, t)

StorySpec == StoryInit /\ [][StoryNext]_vars

(* ---------------- specification: passages and their enrichment jobs ---------------- *)
\* a fresh story continued by the timer path, one generateNarrative at a
\* time, with the theme extractor and the story draft jobs it schedules,
\* and with reset and a new initial plot
EnrichInit == InitWith({0})

EnrichNext ==
  \/ \E a \in AiPlayers : WriteMessage(a, "c1", MaxMessages)
  \/ GenerateWorldStories({1})
  \/ SyncGetWorldPlot(1)
  \/ SyncGetAllMessagesSince(1)
  \/ SyncPush(1, MaxStackLen)
  \/ GetNarrativeData(1)
  \/ ChatCompletionFails(1)
  \/ SaveNarrative(1, ExtractorIds, DrafterIds, {1}, {})
  \/ \E e \in ExtractorIds : ExtractGetWorldPlot(e)
  \/ \E e \in ExtractorIds : ExtractThemeMutationFails(e)
  \/ \E e \in ExtractorIds, c \in ExtractorContents : ExtractThemeMutation(e, c)
  \/ \E e \in ExtractorIds : ExtractGetThemeMutations(e)
  \/ \E e \in ExtractorIds : ExtractGetPreviousTheme(e)
  \/ \E e \in ExtractorIds : SaveThemeMutation(e)
  \/ \E e \in ExtractorIds : UpdateEvolvedTheme(e)
  \/ \E d \in DrafterIds : AlterGetStoryDraft(d)
  \/ \E d \in DrafterIds : AlterStoryDraftFails(d)
  \/ \E d \in DrafterIds : AlterSaveStoryDraft(d)
  \/ \E g \in DraftGeneratorIds : GenerateStoryDraftFails(g)
  \/ \E g \in DraftGeneratorIds : GenerateStoryDraftSave(g)
  \/ \E th \in Themes : setInitialPlot(th, DraftGeneratorIds)
  \/ resetWorldStory

EnrichSpec == EnrichInit /\ [][EnrichNext]_vars

(* ---------------- the final passage and its finalizers ---------------- *)
\* a world one passage short of MAX_PASSAGES: the cron's firings save the
\* final passage and schedule generateFinalSummary
FinalInit == InitWith({MAX_PASSAGES - 1})

FinalNext ==
  \/ \E a \in AiPlayers : WriteMessage(a, "c1", MaxMessages)
  \/ GenerateWorldStories(JobIds)
  \/ \E j \in JobIds : SyncGetWorldPlot(j)
  \/ \E j \in JobIds : SyncGetAllMessagesSince(j)
  \/ \E j \in JobIds : SyncPush(j, MaxStackLen)
  \/ \E j \in JobIds : GetNarrativeData(j)
  \/ \E j \in JobIds : ChatCompletionFails(j)
  \/ \E j \in JobIds : SaveNarrative(j, {}, {}, FinalizerIds, {})
  \/ \E f \in FinalizerIds : FinalGetWorldStory(f)
  \/ \E f \in FinalizerIds : FinalGetWorldPlot(f)
  \/ \E f \in FinalizerIds : FinalChatCompletionFails(f)
  \/ \E f \in FinalizerIds, t \in FinalOutputs : UpdatePlotCompletion(f, t)
  \/ VacuumOldEntries
  \/ resetWorldStory

FinalSpec == FinalInit /\ [][FinalNext]_vars


(* ---------------- specification: firings retried after a failure ---------------- *)
\* a fresh story; utterances arrive at distinct instants, are pushed by the
\* event path and re-synced by the firings; the cron keeps scheduling
\* generateNarrative (the event path's own scheduling adds no firing the cron
\* does not), and every scheduled action runs to its end
RetryInit == InitWith({0})

\* _creationTime of a new row is later than that of the rows before it
LaterUtterance(author) ==
  /\ messages # <<>> => messages[Len(messages)].creationTime < now
  /\ WriteMessage(author, "c1", RetryMessages)

\* the event path's push of utterance id, stamped with its creation time
PushMutationOf(id) ==
  /\ id \in DOMAIN pushState
  /\ PushToConversationStackMutation(id, RetryStackLen, messages[id].creationTime)

\* the steps of the generateNarrative run in slot j
FiringStep(j) ==
  \/ SyncGetWorldPlot(j)
  \/ SyncGetAllMessagesSince(j)
  \/ SyncPush(j, RetryStackLen)
  \/ GetNarrativeData(j)
  \/ ChatCompletionFails(j)
  \/ SaveNarrative(j, {}, {}, {1}, {})

RetryNext ==
  \/ Tick(1000)
  \/ \E a \in AiPlayers : LaterUtterance(a)
  \/ \E id \in 1..RetryMessages : PushMutationOf(id)
  \/ GenerateWorldStories(JobIds)
  \/ \E j \in JobIds : FiringStep(j)

\* the cron fires every 10 seconds; a scheduled action runs each of its steps;
\* the Generation Service call of a firing returns
RetryFairness ==
  /\ WF_vars(GenerateWorldStories(JobIds))
  /\ \A id \in 1..RetryMessages : WF_vars(PushMutationOf(id))
  /\ \A j \in JobIds : WF_vars(FiringStep(j))

RetrySpec == RetryInit /\ [][RetryNext]_vars /\ RetryFairness


(* ---------------- specification: the end of the story ---------------- *)
\* a world one passage short of MAX_PASSAGES; utterances keep arriving (as
\* many as the run has), the cron keeps scheduling generateNarrative, every
\* scheduled action runs to its end, and the Generation Service fails at most
\* MaxFailures passage calls and does not fail the finalizer for ever
TerminationInit == InitWith({MAX_PASSAGES - 1})

Utterance == \E a \in AiPlayers : WriteMessage(a, "c1", TerminationMessages)

\* the steps of the generateFinalSummary run in slot f
FinalizerStep(f) ==
  \/ FinalGetWorldStory(f)
  \/ FinalGetWorldPlot(f)
  \/ FinalChatCompletionFails(f)
  \/ \E t \in FinalSummaries : UpdatePlotCompletion(f, t)

TerminationNext ==
  \/ Utterance
  \/ GenerateWorldStories(JobIds)
  \/ \E j \in JobIds : FiringStep(j)
  \/ FinalizerStep(1)

TerminationFairness ==
  /\ WF_vars(Utterance)
  /\ WF_vars(GenerateWorldStories(JobIds))
  /\ \A j \in JobIds : WF_vars(FiringStep(j))
  /\ WF_vars(FinalizerStep(1))
  /\ SF_vars(\E t \in FinalSummaries : UpdatePlotCompletion(1, t))

TerminationSpec == TerminationInit /\ [][TerminationNext]_vars /\ TerminationFairness

(* ---------------- specification: a firing invoked again ---------------- *)
\* a story at its start or one passage short of its end; utterances reach the
\* stacks by the event path, at any moment after they were written, and by
\* the sync of the firings; generateNarrative is invoked again and again, one
\* run at a time, and schedules its enrichment, summary and finalizer jobs
ReinvokeInit == InitWith(InitPassageCounts)

\* the steps of the generateNarrative run with every job it schedules
ReinvokedStep ==
  \/ SyncGetWorldPlot(1)
  \/ SyncGetAllMessagesSince(1)
  \/ SyncPush(1, RetryStackLen)
  \/ GetNarrativeData(1)
  \/ ChatCompletionFails(1)
  \/ SaveNarrative(1, ExtractorIds, DrafterIds, {1}, SummarizerIds)

\* a job the run scheduled runs and ends: here the runs whose Generation
\* Service call fails, and the finalizer that finds too few passages or fails
ScheduledJobEnds ==
  \/ \E e \in ExtractorIds : ExtractGetWorldPlot(e)
  \/ \E e \in ExtractorIds : ExtractThemeMutationFails(e)
  \/ \E d \in DrafterIds : AlterGetStoryDraft(d)
  \/ \E d \in DrafterIds : AlterStoryDraftFails(d)
  \/ \E u \in SummarizerIds : GetPlotSummaryData(u)
  \/ \E u \in SummarizerIds : PlotSummaryFails(u)
  \/ FinalGetWorldStory(1)
  \/ FinalGetWorldPlot(1)
  \/ FinalChatCompletionFails(1)

ReinvokeNext ==
  \/ \E a \in AiPlayers : WriteMessage(a, "c1", MaxMessages)
  \/ \E id \in 1..MaxMessages : PushMutationOf(id)
  \/ GenerateWorldStories({1})
  \/ ReinvokedStep
  \/ ScheduledJobEnds

ReinvokeSpec == ReinvokeInit /\ [][ReinvokeNext]_vars

(* ---------------- specification: utterances between overlapping firings ---------------- *)
\* a fresh story; utterances arrive at distinct instants and reach the stacks
\* by the sync of the firings alone; the cron schedules firings that overlap
LossInit == InitWith({0})

\* an utterance written at a later instant than the ones before it
LossUtterance ==
  /\ messages # <<>> => messages[Len(messages)].creationTime < now
  /\ \E a \in AiPlayers : WriteMessage(a, "c1", LossMessages)

LossNext ==
  \/ TickWithin(1000, LossMessages - 1)
  \/ LossUtterance
  \/ GenerateWorldStories(JobIds)
  \/ \E j \in JobIds : FiringStep(j)

LossSpec == LossInit /\ [][LossNext]_vars

(* ---------------- specification: creating the plot ---------------- *)
\* a world whose plot is reset and set again while the pipeline runs:
\* setInitialPlot, createWorldPlot and initializeWorldPlot in any order
PlotInit == InitWith({0})

PlotNext ==
  \/ \E th \in PlotThemes : setInitialPlot(th, DraftGeneratorIds)
  \/ \E g \in DraftGeneratorIds : GenerateStoryDraftFails(g)
  \/ \E g \in DraftGeneratorIds : GenerateStoryDraftSave(g)
  \/ \E th \in PlotThemes : CreateWorldPlotCall(th)
  \/ initializeWorldPlot
  \/ resetWorldStory
  \/ \E a \in Players : WriteMessage(a, "c1", MaxMessages)
  \/ GenerateWorldStories({1})
  \/ FiringStep(1)

PlotSpec == PlotInit /\ [][PlotNext]_vars


(* ---------------- specification: passages and plot summaries ---------------- *)
\* a story at any stage whose plot has counted some dialogues; utterances of
\* two conversations; one generateNarrative in flight and the summary actions
\* saveNarrative and the cron schedule
DialogueCounts == (MaxDialogueCount - 2)..MaxDialogueCount

SummaryInit ==
  \E k \in 0..(MAX_PASSAGES - 1), c \in DialogueCounts : InitStory(k, c)

SummaryNext ==
  \/ \E a \in AiPlayers, c \in {"c1", "c2"} : WriteMessage(a, c, SummaryMessages)
  \/ GenerateWorldStories({1})
  \/ SyncGetWorldPlot(1)
  \/ SyncGetAllMessagesSince(1)
  \/ SyncPush(1, MaxStackLen)
  \/ GetNarrativeData(1)
  \/ ChatCompletionFails(1)
  \/ SaveNarrative(1, {}, {}, {1}, SummarizerIds)
  \/ GeneratePlotSummaries(SummarizerIds)
  \/ \E s \in SummarizerIds : GetPlotSummaryData(s)
  \/ \E s \in SummarizerIds : PlotSummaryFails(s)
  \/ \E s \in SummarizerIds, c \in PlainOutputs : UpdatePlotSummary(s, c)

SummarySpec == SummaryInit /\ [][SummaryNext]_vars

(* ---------------- specification: the summaries the compactor stores ---------------- *)
\* a story one passage and one dialogue short of its end: the next passage is
\* the last one (the final summary) and brings the dialogue count to
\* PLOT_SUMMARY_DIALOGUES (the expanded summary); the cron schedules the
\* rolling summary. The Generation Service answers with any text.
CompactInit == InitStory(MAX_PASSAGES - 1, PLOT_SUMMARY_DIALOGUES - 1)

CompactNext ==
  \/ \E a \in AiPlayers : WriteMessage(a, "c1", MaxMessages)
  \/ GenerateWorldStories({1})
  \/ SyncGetWorldPlot(1)
  \/ SyncGetAllMessagesSince(1)
  \/ SyncPush(1, MaxStackLen)
  \/ GetNarrativeData(1)
  \/ ChatCompletionFails(1)
  \/ SaveNarrative(1, {}, {}, {1}, {1})
  \/ GeneratePlotSummaries({1})
  \/ GetPlotSummaryData(1)
  \/ PlotSummaryFails(1)
  \/ \E content \in ServiceOutputs : UpdatePlotSummary(1, content)
  \/ FinalGetWorldStory(1)
  \/ FinalGetWorldPlot(1)
  \/ FinalChatCompletionFails(1)
  \/ \E content \in ServiceOutputs : UpdatePlotCompletion(1, cleanFinalSummary(content))

CompactSpec == CompactInit /\ [][CompactNext]_vars

(* ---------------- specification: the trigger evaluator alone ---------------- *)
GateLastGenerationTimes ==
  {Epoch - STORY_GENERATION_COOLDOWN, Epoch - STORY_GENERATION_COOLDOWN + 1}
GateMessageIds == 1..3

\* the stack of player p when the entries es[1..n] = <<player, conversation,
\* messageId>> were pushed in this order
GateStack(es, n, p) ==
  LET idx == SelectSeq([i \in 1..n |-> i], LAMBDA i : es[i][1] = p)
  IN [k \in 1..Len(idx) |-> [messageId |-> es[idx[k]][3],
                             conversationId |-> es[idx[k]][2], timestamp |-> 0]]

\* every plot state of up to MaxGateEntries stack entries (an utterance may be
\* stacked more than once) and every set of processed ids
GateInit ==
  /\ now = Epoch
  /\ ticks = 0
  /\ resets = 0
  /\ nextMessageId = 1
  /\ messages = <<>>
  /\ pushState = <<>>
  /\ worldStory = <<>>
  /\ jobs = [j \in JobIds |-> IdleJob]
  /\ finalizers = [f \in FinalizerIds |-> IdleFinalizer]
  /\ failures = <<>>
  /\ plotCall = NoCall
  /\ summarizers = [s \in SummarizerIds |-> IdleSummarizer]
  /\ triggerCheck = NoCheck
  /\ InitEnrichment
  /\ \E n \in 0..MaxGateEntries :
       \E es \in [1..n -> Players \X Conversations \X GateMessageIds] :
         \E processed \in SUBSET GateMessageIds :
           \E last \in GateLastGenerationTimes :
             worldPlot = <<[NewPlot("themeA") EXCEPT
                !.conversationStacks = [p \in Players |-> GateStack(es, n, p)],
                !.processedMessageIds = processed,
                !.lastStoryGenerationTime = last]>>

\* one evaluation of the query
EvaluateTrigger(prioritizeHuman) ==
  /\ triggerCheck = NoCheck
  /\ triggerCheck' = [shouldTrigger |-> shouldTriggerStoryGeneration(prioritizeHuman).shouldTrigger,
                      reason |-> shouldTriggerStoryGeneration(prioritizeHuman).reason,
                      prioritizeHuman |-> prioritizeHuman]
  /\ UNCHANGED <<now, ticks, resets, nextMessageId, messages, pushState,
                 worldPlot, worldStory, jobs, finalizers>>
  /\ UNCHANGED enrichVars
  /\ UNCHANGED failures
  /\ UNCHANGED plotCall
  /\ UNCHANGED summarizers

GateNext == \E ph \in BOOLEAN : EvaluateTrigger(ph)

GateSpec == GateInit /\ [][GateNext]_vars

(* ---------------- properties ---------------- *)
\* the step appended one passage row
Appended == Len(worldStory') = Len(worldStory) + 1
NewRow == worldStory'[Len(worldStory')]
AiOnly(names) == names \cap HumanPlayerIds = {}

\* C1: under any interleaving of generateNarrative jobs the number of passage
\* rows of the world never exceeds MAX_PASSAGES
C1_PassageCountBounded == Len(worldStory) <= MAX_PASSAGES

\* C2: once the plot is complete no step appends another passage row
C2_NoAppendAfterComplete ==
  [][(HasPlot /\ Plot.isComplete) => ~Appended]_vars

\* C3: whenever the world has MAX_PASSAGES passage rows its plot is complete
C3_CompleteAtMaxPassages ==
  (HasPlot /\ Len(worldStory) = MAX_PASSAGES) => Plot.isComplete

\* C4: a passage that is appended has no source that is already in
\* processedMessageIds, and none that is a source of an earlier passage
C4_SourcesNeverReprocessed ==
  [][Appended =>
       /\ HasPlot => NewRow.sourceMessages \cap Plot.processedMessageIds = {}
       /\ \A i \in 1..Len(worldStory) :
            worldStory[i].sourceMessages \cap NewRow.sourceMessages = {}]_vars

UnprocessedEntries ==
  {x \in UNION {{p} \X (1..Len(Plot.conversationStacks[p])) : p \in Players} :
     Plot.conversationStacks[x[1]][x[2]].messageId \notin Plot.processedMessageIds}
UnprocessedHuman == {x \in UnprocessedEntries : x[1] \in HumanPlayerIds}
UnprocessedIn(c) ==
  {x \in UnprocessedEntries : Plot.conversationStacks[x[1]][x[2]].conversationId = c}
Evaluated == triggerCheck.reason # "none"

\* C6: with no unprocessed human utterance and the caller not flagged human,
\* shouldTrigger is true exactly when the cooldown has elapsed, at least
\* MIN_MESSAGES_FOR_STORY utterances are unprocessed and some conversation
\* holds at least MIN_MESSAGES_IN_CONVERSATION of them
C6_AiOnlyGate ==
  (Evaluated /\ HasPlot /\ ~triggerCheck.prioritizeHuman /\ UnprocessedHuman = {}) =>
    (triggerCheck.shouldTrigger <=>
       /\ now - Plot.lastStoryGenerationTime >= STORY_GENERATION_COOLDOWN
       /\ Cardinality(UnprocessedEntries) >= MIN_MESSAGES_FOR_STORY
       /\ \E c \in Conversations :
            Cardinality(UnprocessedIn(c)) >= MIN_MESSAGES_IN_CONVERSATION)

\* the AI-only gate was evaluated and opened
C6_Witness ==
  /\ Evaluated /\ HasPlot /\ ~triggerCheck.prioritizeHuman
  /\ UnprocessedHuman = {}
  /\ Cardinality(UnprocessedEntries) = MIN_MESSAGES_FOR_STORY
  /\ now - Plot.lastStoryGenerationTime = STORY_GENERATION_COOLDOWN
  /\ triggerCheck.shouldTrigger

\* C7: with at least one unprocessed human utterance shouldTrigger is true,
\* whatever the cooldown, the AI utterance count and their grouping
C7_HumanBypass ==
  (Evaluated /\ HasPlot /\ UnprocessedHuman # {}) => triggerCheck.shouldTrigger

\* a lone human utterance inside the cooldown, caller not flagged human
C7_Witness ==
  /\ Evaluated /\ HasPlot /\ ~triggerCheck.prioritizeHuman
  /\ Cardinality(UnprocessedEntries) = 1
  /\ UnprocessedHuman # {}
  /\ now - Plot.lastStoryGenerationTime < STORY_GENERATION_COOLDOWN
  /\ triggerCheck.shouldTrigger

\* C8: when the push of the 3rd AI utterance of conversation C1 has fired a
\* generation, the push of the 4th, inside the cooldown, does not fire one
C8_FourthPushQuiet ==
  (/\ Len(pushState) >= 4
   /\ pushState[3].st = "fired"
   /\ Len(messages) >= 4
   /\ messages[4].creationTime = messages[3].creationTime + 1000
   /\ now < messages[3].creationTime + STORY_GENERATION_COOLDOWN)
  => pushState[4].st # "fired"

\* C9: an AI-only passage is appended only by a job at whose firing the
\* AI-only gate held, and never less than the cooldown after the AI-only
\* passage before it
C9_AiOnlyPassagesGated ==
  [][(Appended /\ AiOnly(NewRow.characterNames)) =>
       /\ \A j \in JobIds :
            (jobs[j].pc = "chat" /\ jobs'[j].pc = "idle") => jobs[j].gate
       /\ (Len(worldStory) > 0 /\ AiOnly(worldStory[Len(worldStory)].characterNames)) =>
            NewRow.timestamp - worldStory[Len(worldStory)].timestamp
              >= STORY_GENERATION_COOLDOWN]_vars

\* the phase the specification assigns to an ordinal
PhaseOfOrdinal(n) ==
  IF n \in 1..3 THEN "beginning"
  ELSE IF n \in 4..6 THEN "rising"
  ELSE IF n \in 7..9 THEN "climax"
  ELSE IF n \in 10..12 THEN "conclusion"
  ELSE "none"

\* C10: every passage row carries the phase of its ordinal (1-3 beginning,
\* 4-6 rising, 7-9 climax, 10-12 conclusion) and is flagged final exactly
\* when its ordinal is MAX_PASSAGES
C10_PhaseOfOrdinal ==
  \A i \in 1..Len(worldStory) :
    /\ worldStory[i].phase = PhaseOfOrdinal(worldStory[i].passageNumber)
    /\ worldStory[i].isFinalPassage <=> worldStory[i].passageNumber = MAX_PASSAGES

\* generateNarrative has appended the final passage to a story of eleven
C10_Witness ==
  /\ Len(worldStory) = MAX_PASSAGES
  /\ worldStory[MAX_PASSAGES].sourceMessages \cap (1..MaxMessages) # {}
  /\ worldStory[MAX_PASSAGES].isFinalPassage
  /\ worldStory[MAX_PASSAGES].phase = "conclusion"
  /\ worldStory[MAX_PASSAGES - 1].phase = "conclusion"
  /\ ~worldStory[MAX_PASSAGES - 1].isFinalPassage

\* C11: the theme mutation rows, ordered by mutationIndex, form a chain that
\* starts at the plot's initial theme: each previousTheme is the newTheme of
\* the row before
C11_ThemeChain ==
  LET m == getThemeMutations
  IN /\ (HasPlot /\ Len(m) > 0) => m[1].previousTheme = Plot.initialPlot
     /\ \A i \in 2..Len(m) : m[i].previousTheme = m[i - 1].newTheme

\* C12: the rows carry the indices 0, 1, 2, ... in append order, so that the
\* indices are pairwise distinct and strictly increasing
C12_IndicesIncrease ==
  \A i \in 1..Len(themeMutations) : themeMutations[i].mutationIndex = i - 1

\* what a generateFinalSummary call does after its plot read found a stored
\* summary: it does not go on to the Generation Service call (and so to the
\* write), and it returns what is stored
ReturnsStored(f) ==
  /\ finalizers[f].pc # "chat"
  /\ finalizers[f].pc = "idle" => finalizers[f].returned = finalizers[f].stored

C14_FinalSummaryWrittenOnce ==
  [][(HasPlot /\ HasPlot' /\ Plot.finalSummary \notin {Undefined, ""})
       => Plot'.finalSummary = Plot.finalSummary]_vars

\* a step of a generateNarrative run other than the commit of saveNarrative
FiringStepWithoutSave(j) ==
  \/ SyncGetWorldPlot(j)
  \/ SyncGetAllMessagesSince(j)
  \/ SyncPush(j, MaxStackLen)
  \/ GetNarrativeData(j)
  \/ ChatCompletionFails(j)

\* C15: a passage firing whose Generation Service call fails appends no
\* passage, adds no id to processedMessageIds and does not stamp
\* lastStoryGenerationTime: none of its steps, the failing one included, does
C15_FailedFiringWritesNothing ==
  [][\A j \in JobIds :
       FiringStepWithoutSave(j) =>
         /\ worldStory' = worldStory
         /\ HasPlot' = HasPlot
         /\ HasPlot =>
              /\ Plot'.processedMessageIds = Plot.processedMessageIds
              /\ Plot'.lastStoryGenerationTime = Plot.lastStoryGenerationTime]_vars

\* a firing has failed on a story without passages: its utterance is on a
\* stack, nothing is processed and no generation time is stamped
C15_Witness ==
  /\ failures # <<>>
  /\ resets = 0
  /\ HasPlot
  /\ worldStory = <<>>
  /\ Plot.processedMessageIds = {}
  /\ Plot.lastStoryGenerationTime = 0
  /\ \E p \in Players : Plot.conversationStacks[p] # <<>>

\* every stack of the plot has room for another push
RetryStacksHaveRoom ==
  HasPlot => \A p \in Players : Len(Plot.conversationStacks[p]) < RetryStackLen

\* C16: the utterances of a firing that was aborted by a Generation Service
\* failure are, under fair scheduling, eventually sources of a passage (in
\* the runs in which no push has to wait for room on a stack)
C16_FailedBatchEventuallyTold ==
  \A m \in 1..RetryMessages :
    (\E i \in 1..Len(failures) : m \in failures[i])
      ~> \/ \E k \in 1..Len(worldStory) : m \in worldStory[k].sourceMessages
         \/ ~RetryStacksHaveRoom

\* C17: the world never has more than one worldPlot row, and a call of
\* createWorldPlot that finds a row inserts nothing and returns that row's id
C17_OnePlotPerWorld ==
  /\ [](Len(worldPlot) <= 1)
  /\ [][\A th \in PlotThemes :
          (HasPlot /\ CreateWorldPlotCall(th)) =>
            /\ worldPlot' = worldPlot
            /\ plotCall'.returned = Plot._id]_vars

\* after a reset, createWorldPlot was called with one theme on a world whose
\* plot setInitialPlot had created with another: it returned that row's id
C17_Witness ==
  /\ resets = 1
  /\ HasPlot
  /\ Plot.initialPlot = "themeB"
  /\ plotCall.fn = "createWorldPlot"
  /\ plotCall.initialPlot = "themeA"
  /\ plotCall.returned = Plot._id

\* C18: resetWorldStory leaves the world with no worldPlot row, no worldStory
\* row, no themeMutations row and no storyDrafts row
C18_ResetClearsStory ==
  [][resets' = resets + 1 =>
       /\ worldPlot' = <<>>
       /\ worldStory' = <<>>
       /\ themeMutations' = <<>>
       /\ storyDrafts' = <<>>]_vars

\* C19: the version of the world's story draft never decreases, and a
\* successful alterStoryDraft stores the version stored just before its
\* write, plus one
C19_VersionsIncrease ==
  [][(storyDrafts # <<>> /\ storyDrafts' # <<>>) =>
       /\ storyDrafts'[1].currentVersion >= storyDrafts[1].currentVersion
       /\ \A d \in DrafterIds :
            AlterSaveStoryDraft(d) =>
              storyDrafts'[1].currentVersion = storyDrafts[1].currentVersion + 1]_vars

\* the step in which an enrichment job fails
EnrichmentFails ==
  \/ \E e \in ExtractorIds : ExtractThemeMutationFails(e)
  \/ \E d \in DrafterIds : AlterStoryDraftFails(d)

\* C20: a failure of extractAndSaveThemeMutation or of alterStoryDraft leaves
\* the passages, the plot row with its processedMessageIds, the messages and
\* the generateNarrative runs as they are, so that no firing is kept from
\* appending
C20_EnrichmentFailureIsolated ==
  [][EnrichmentFails =>
       /\ worldStory' = worldStory
       /\ worldPlot' = worldPlot
       /\ messages' = messages
       /\ jobs' = jobs]_vars

\* both theme extractors and the draft rewrite of a saved passage have failed:
\* the passage and its processed utterance are in place
C20_Witness ==
  /\ resets = 0
  /\ Len(worldStory) = 1
  /\ worldStory[1].sourceMessages = {1}
  /\ HasPlot /\ 1 \in Plot.processedMessageIds
  /\ \A e \in ExtractorIds : extractors[e].pc = "idle"
  /\ \A d \in DrafterIds : drafters[d].pc = "idle"
  /\ themeMutations = <<>>
  /\ storyDrafts # <<>> /\ storyDrafts[1].currentVersion = 1

\* the step in which the run in slot e gets no mutation: the call throws, or
\* its content holds no parsable fragment
ExtractorGetsNothing(e) ==
  \/ ExtractThemeMutationFails(e)
  \/ \E c \in ExtractorContents :
       c.fragment \in {"none", "malformed"} /\ ExtractThemeMutation(e, c)

\* C21: when the extractor's call fails or its response holds no parsable
\* fragment, the run ends without a themeMutations row and without a change
\* of the plot's evolvedTheme
C21_NoMutationWithoutFragment ==
  [][\A e \in ExtractorIds :
       ExtractorGetsNothing(e) =>
         /\ extractors'[e].pc = "idle"
         /\ themeMutations' = themeMutations
         /\ worldPlot' = worldPlot]_vars

\* both extractor runs of a saved passage have ended, and there is no row and
\* no evolved theme
C21_Witness ==
  /\ resets = 0
  /\ Len(worldStory) = 1
  /\ \A e \in ExtractorIds : extractors[e].pc = "idle"
  /\ themeMutations = <<>>
  /\ HasPlot /\ Plot.evolvedTheme = Undefined

\* the rows that carry the highest mutationIndex
NewestMutations ==
  {i \in 1..Len(themeMutations) :
     \A k \in 1..Len(themeMutations) :
       themeMutations[k].mutationIndex <= themeMutations[i].mutationIndex}

\* C22: on a story that was not reset, whenever no extractor run is between
\* saveThemeMutation and updateEvolvedTheme, the plot's evolvedTheme is the
\* newTheme of a row with the highest mutationIndex, and is unset when there
\* is no row
C22_EvolvedThemeIsNewest ==
  (/\ resets = 0
   /\ HasPlot
   /\ \A e \in ExtractorIds : extractors[e].pc # "update")
  => IF themeMutations = <<>>
     THEN Plot.evolvedTheme = Undefined
     ELSE \E i \in NewestMutations :
            Plot.evolvedTheme = themeMutations[i].newTheme

\* a positive multiple of PLOT_SUMMARY_DIALOGUES lies above the count before
\* and at or below the count after
CrossesSummaryMultiple(before, after) ==
  \E n \in 1..after :
    before < n * PLOT_SUMMARY_DIALOGUES /\ n * PLOT_SUMMARY_DIALOGUES <= after

\* C23: every saveNarrative that makes totalDialogueCount cross a positive
\* multiple of 10 schedules generatePlotSummaryWithUnprocessed
C23_CrossingSchedulesEnhancedSummary ==
  [][(/\ HasPlot
      /\ Len(worldStory') = Len(worldStory) + 1
      /\ CrossesSummaryMultiple(Plot.totalDialogueCount,
                                worldPlot'[1].totalDialogueCount))
     => \E s \in SummarizerIds :
          /\ summarizers[s].pc = "idle"
          /\ summarizers'[s].pc = "scheduled"
          /\ summarizers'[s].kind = "generatePlotSummaryWithUnprocessed"]_vars

\* C28: for every passage count k in 1..MAX_PASSAGES the stage a summary
\* action writes, determineStoryProgress(k), is the phase getPassagePhase(k)
\* of passage k
C28_ProgressIsPassagePhase ==
  [][\A s \in SummarizerIds, c \in PlainOutputs :
       (/\ UpdatePlotSummary(s, c)
        /\ HasPlot
        /\ summarizers[s].storyCount \in 1..MAX_PASSAGES)
       => worldPlot'[1].storyProgress = getPassagePhase(summarizers[s].storyCount)]_vars

\* a summary action has written the stage of a story whose tenth passage was
\* saved in this run
C28_Witness ==
  /\ HasPlot
  /\ Len(worldStory) = 10
  /\ worldStory[10].timestamp = now
  /\ Plot.storyProgress = "conclusion"
  /\ \A s \in SummarizerIds : summarizers[s].pc = "idle"

\* the stacks after the step are the stacks before it with one entry for
\* messageId added at the end of the stack of playerId
AppendsToStack(playerId, messageId) ==
  LET before == Plot.conversationStacks
      after == worldPlot'[1].conversationStacks
  IN /\ Len(after[playerId]) = Len(before[playerId]) + 1
     /\ SubSeq(after[playerId], 1, Len(before[playerId])) = before[playerId]
     /\ after[playerId][Len(after[playerId])].messageId = messageId
     /\ \A q \in Players \ {playerId} : after[q] = before[q]

\* C24: every pushToConversationStackMutation that finds the plot, called by
\* the event path or by syncMessagesToStacks, appends one entry at the end of
\* the author's stack and leaves every existing entry of every stack in place
C24_PushAppendsInOrder ==
  [][/\ \A id \in DOMAIN pushState :
          (HasPlot /\ PushToConversationStackMutation(id, ScenarioStackLen, now))
          => AppendsToStack(pushState[id].playerId, id)
     /\ \A j \in JobIds :
          (HasPlot /\ SyncPush(j, ScenarioStackLen))
          => AppendsToStack(Head(jobs[j].toPush).author, Head(jobs[j].toPush).id)]_vars

\* the first two utterances of one player are stacked in the order of their
\* pushes, and a third push followed
C24_Witness ==
  /\ HasPlot
  /\ Len(Plot.conversationStacks["ai1"]) >= 3
  /\ Plot.conversationStacks["ai1"][1].messageId = 1
  /\ Plot.conversationStacks["ai1"][2].messageId = 2

\* the number of entries of all stacks that carry the utterance id
Occurrences(id) ==
  Cardinality({x \in UNION {{p} \X (1..Len(Plot.conversationStacks[p])) : p \in Players} :
                 Plot.conversationStacks[x[1]][x[2]].messageId = id})

\* C25: in every reachable state each utterance id occurs at most once across
\* all conversation stacks
C25_NoDuplicateInStacks ==
  HasPlot => \A id \in 1..Len(pushState) : Occurrences(id) <= 1

\* the steps of a firing of generateNarrative in ScenarioSpec other than its
\* saveNarrative: the sync, the data read with its null returns, and the
\* failing Generation Service call
ScenarioStepWithoutSave(j) ==
  \/ SyncGetWorldPlot(j)
  \/ SyncGetAllMessagesSince(j)
  \/ SyncPush(j, ScenarioStackLen)
  \/ GetNarrativeData(j)
  \/ ChatCompletionFails(j)

C27_SaveKeepsLaterPushes ==
  [][\A j \in JobIds :
       (HasPlot /\ SaveNarrative(j, {}, {}, {1}, {}))
       => \A p \in Players :
            \A i \in 1..Len(Plot.conversationStacks[p]) :
              Plot.conversationStacks[p][i].messageId
                  \notin {m.messageId : m \in jobs[j].batch}
              => \E k \in 1..Len(worldPlot'[1].conversationStacks[p]) :
                   worldPlot'[1].conversationStacks[p][k]
                     = Plot.conversationStacks[p][i]]_vars

\* the passages the story began with are all still in the log: no vacuum and
\* no reset has removed a row
LogIntact ==
  /\ resets = 0
  /\ Len(worldStory) >= MAX_PASSAGES - 1
  /\ \A i \in 1..(MAX_PASSAGES - 1) : worldStory[i] = HistoricPassage(i)

\* C30: with no row removed from the log, every passage stands at the
\* position its firing computed as its ordinal (persisted count + 1), no two
\* passages were generated for the same ordinal, and a story of MAX_PASSAGES
\* or more passages has exactly one passage generated as the concluding
\* passage, at position MAX_PASSAGES
C30_OrdinalIsPosition ==
  LogIntact =>
    /\ \A i \in 1..Len(worldStory) : worldStory[i].passageNumber = i
    /\ \A i, k \in 1..Len(worldStory) :
         worldStory[i].passageNumber = worldStory[k].passageNumber => i = k
    /\ Len(worldStory) >= MAX_PASSAGES
       => {i \in 1..Len(worldStory) : worldStory[i].isFinalPassage} = {MAX_PASSAGES}

\* the story is over: MAX_PASSAGES passages, isComplete, and a final summary
Terminated ==
  /\ HasPlot
  /\ Len(worldStory) >= MAX_PASSAGES
  /\ Plot.isComplete
  /\ Plot.finalSummary # Undefined

\* the run's utterances are all written and consumed before the last passage
UtterancesRanOut ==
  /\ nextMessageId > TerminationMessages
  /\ Len(worldStory) < MAX_PASSAGES

\* C29: under fair scheduling every story terminates: the passage count
\* reaches MAX_PASSAGES, isComplete becomes true and finalSummary is set, and
\* from then on the passage log keeps its length (in the runs in which no push
\* has to wait for room on a stack and the utterances do not run out)
C29_StoryTerminates ==
  \/ <>(~RetryStacksHaveRoom)
  \/ <>[]UtterancesRanOut
  \/ /\ <>Terminated
     /\ \A n \in MAX_PASSAGES..(MAX_PASSAGES + MaxJobs) :
          [](Terminated /\ Len(worldStory) = n => [](Len(worldStory) = n))

\* no firing has saved a passage since the plot row was created
NothingSavedYet ==
  /\ Plot.lastStoryGenerationTime = 0
  /\ \A id \in Plot.processedMessageIds : id < 0

\* C31: a firing that aborts leaves the conversation stacks as they were
\* before it: while every firing so far has aborted and none is running, the
\* stacks are the empty stacks the story began with (StorySpec has no other
\* writer of the stacks than the firings)
C31_AbortedFiringKeepsStacks ==
  (HasPlot /\ NothingSavedYet /\ jobs[1].pc = "idle")
  => Plot.conversationStacks = EmptyStacks

\* a run has saved a passage and nothing is left to tell: every utterance of
\* the message log and every stacked entry is in processedMessageIds
AllConsumed ==
  /\ HasPlot
  /\ Plot.lastStoryGenerationTime > 0
  /\ \A i \in 1..Len(messages) : messages[i].id \in Plot.processedMessageIds
  /\ \A p \in Players : \A i \in 1..Len(Plot.conversationStacks[p]) :
       Plot.conversationStacks[p][i].messageId \in Plot.processedMessageIds

\* C32: when generateNarrative is invoked again after a run that saved its
\* passage, with no utterance left that the story has not consumed, no step
\* of the new run appends a passage, changes processedMessageIds or
\* lastStoryGenerationTime, or schedules an enrichment, summary or finalizer job
C32_ReinvocationIsNoOp ==
  [][(AllConsumed /\ ReinvokedStep)
     => /\ worldStory' = worldStory
        /\ HasPlot'
        /\ worldPlot'[1].processedMessageIds = Plot.processedMessageIds
        /\ worldPlot'[1].lastStoryGenerationTime = Plot.lastStoryGenerationTime
        /\ extractors' = extractors
        /\ drafters' = drafters
        /\ summarizers' = summarizers
        /\ finalizers' = finalizers]_vars

\* the new run is about to read its data, and a stack holds an entry of an
\* utterance the earlier run consumed
C32_Witness ==
  /\ AllConsumed
  /\ jobs[1].pc = "getData"
  /\ \E p \in Players : Plot.conversationStacks[p] # <<>>

\* the extractor runs a step puts into the slots
NewlyScheduledExtractors ==
  {e \in ExtractorIds : extractors[e].pc = "idle" /\ extractors'[e].pc = "scheduled"}

\* C33: the step that appends a passage schedules the theme extractor at
\* most once, and on a story that was not reset there are never more
\* ThemeMutation rows than passages
C33_OneExtractorPerPassage ==
  /\ [][Len(worldStory') = Len(worldStory) + 1
        => Cardinality(NewlyScheduledExtractors) <= 1]_vars
  /\ [](resets = 0 => Len(themeMutations) <= Len(worldStory))

\* the place of a stage in the order beginning, rising, climax, conclusion
StageRank(stage) ==
  CASE stage = "beginning" -> 1
    [] stage = "rising" -> 2
    [] stage = "climax" -> 3
    [] stage = "conclusion" -> 4

\* C34: between plot creation and reset no step moves the plot's
\* storyProgress backwards in the order beginning, rising, climax, conclusion
C34_StageNeverRegresses ==
  [][(HasPlot /\ HasPlot' /\ resets' = resets)
     => StageRank(worldPlot'[1].storyProgress) >= StageRank(Plot.storyProgress)]_vars

\* the utterance is an entry of some stack
Stacked(id) ==
  \E p \in Players : \E i \in 1..Len(Plot.conversationStacks[p]) :
    Plot.conversationStacks[p][i].messageId = id

\* C35: every utterance of the message log that is not in
\* processedMessageIds is in some stack or was created after
\* lastProcessedMessageTime, so that the next sync pushes it
C35_NoUtteranceLost ==
  HasPlot =>
    \A i \in 1..Len(messages) :
      messages[i].id \notin Plot.processedMessageIds
      => \/ Stacked(messages[i].id)
         \/ messages[i].creationTime > Plot.lastProcessedMessageTime

\* C36: a step that appends a passage finds the world's plot row
C36_NoPassageWithoutPlot ==
  [][Len(worldStory') > Len(worldStory) => HasPlot]_vars

\* C37: every passage of the log has a non-empty sourceMessages, and a firing
\* whose getNarrativeData finds no unprocessed stacked utterance ends there:
\* it does not reach the Generation Service call and appends nothing
C37_SourcesNonEmpty ==
  /\ [](\A i \in 1..Len(worldStory) : worldStory[i].sourceMessages # {})
  /\ [][(/\ GetNarrativeData(1)
         /\ HasPlot => UnprocessedEntries = {})
        => /\ jobs'[1].pc = "idle"
           /\ worldStory' = worldStory]_vars

\* a passage was appended from utterances of this run, and a later firing is
\* about to read its data from empty stacks
C37_Witness ==
  /\ HasPlot
  /\ jobs[1].pc = "getData"
  /\ Plot.conversationStacks = EmptyStacks
  /\ \E i \in 1..Len(worldStory) : \E id \in worldStory[i].sourceMessages : id > 0

\* C38: whenever the world has a plot row and a story draft row and no
\* generateStoryDraft is pending, the draft's originalTheme is the plot's
\* initial theme
C38_DraftThemeIsPlotTheme ==
  (/\ HasPlot
   /\ storyDrafts # <<>>
   /\ \A g \in DraftGeneratorIds : draftGenerators[g].pc = "idle")
  => storyDrafts[1].originalTheme = Plot.initialPlot

\* the text begins, compared case-insensitively, with one of the prefixes
BeginsWithPrefix(text, prefixes) ==
  \E i \in 1..Len(prefixes) : startsWith(toLowerCase(text), toLowerCase(prefixes[i]))

\* C39: the rolling or expanded summary on the plot row, and the final summary
\* of a completed plot, never begin with a prefix the compactor strips
C39_StoredSummaryHasNoPrefix ==
  HasPlot =>
    /\ ~BeginsWithPrefix(Plot.currentSummary, SummaryPrefixes)
    /\ Plot.isComplete => ~BeginsWithPrefix(Plot.finalSummary, SummaryPrefixes)

====
